---- MODULE Spec2Model ----
(***************************************************************************)
(* Draft Record Store (agent/tools/metadata_store.py) and Capture          *)
(* Orchestrator (agent/tools/capture_mcp.py) of metadata-capture.          *)
(*                                                                         *)
(* The draft_metadata table is a set of rows.  Every coroutine of the      *)
(* program is a call slot whose pc is the await it is suspended at: the    *)
(* statements between two awaits on the shared connection run atomically   *)
(* on the event loop, every SQL statement is one atomic step.              *)
(***************************************************************************)
EXTENDS Integers, Sequences, FiniteSets, TLC

\* ------------------------------------------------------------------ bounds
\* datetime.now() values handed out: caps the number of store writes of a run
MaxClock == 5
\* conversation turns saved in a run
MaxTurns == 2

\* --------------------------------------------------------- Python values
\* A Python value is [t, v]: the tag t always decides before v is compared.
NoneV == [t |-> "none", v |-> 0]
DictV(f) == [t |-> "dict", v |-> f]
StrV(text) == [t |-> "str", v |-> text]
NumV(n) == [t |-> "num", v |-> n]
ListV(s) == [t |-> "list", v |-> s]

\* A text (Python str, TEXT column) is [k, p]: the JSON encoding of the value
\* p (k = "json"), or characters that are no JSON document (k = "raw").
JsonT(val) == [k |-> "json", p |-> val]
RawT(lit) == [k |-> "raw", p |-> lit]
\* SQL NULL
NullT == [k |-> "NULL", p |-> 0]

EmptyDict == DictV([x \in {} |-> NoneV])
IsDict(val) == val.t = "dict"
IsStr(val) == val.t = "str"
Keys(val) == DOMAIN val.v

\* json.dumps
Dumps(val) == JsonT(val)
\* json.loads: ok = FALSE is JSONDecodeError
Loads(text) == IF text.k = "json" THEN [ok |-> TRUE, val |-> text.p]
               ELSE [ok |-> FALSE, val |-> NoneV]

\* Python truthiness (if not x / if x)
Truthy(val) ==
    CASE val.t = "none" -> FALSE
      [] val.t = "str" -> val.v # RawT("")
      [] val.t = "dict" -> Keys(val) # {}
      [] val.t = "list" -> Len(val.v) > 0
      [] val.t = "num" -> val.v # 0
      [] OTHER -> TRUE

\* ------------------------------------------------------------ the columns
\* metadata_store.py METADATA_FIELDS, in its order
METADATA_FIELDS ==
    << "subject_json", "procedures_json", "data_description_json",
       "instrument_json", "acquisition_json", "session_json",
       "processing_json", "quality_control_json", "rig_json" >>
\* capture_mcp.py metadata_fields, in its order
metadata_fields ==
    << "subject", "data_description", "session", "procedures", "instrument",
       "acquisition", "processing", "quality_control", "rig" >>
Range(s) == {s[i] : i \in 1..Len(s)}
MetadataCols == Range(METADATA_FIELDS)
VrCol == "validation_results_json"
\* the TEXT columns of draft_metadata that hold encoded values
JsonCols == MetadataCols \cup {VrCol}

\* str.endswith("_json"), over the field names the model passes: of these
\* only the column names end so
EndsWithJson(name) == name \in JsonCols
\* f"{field}_json"
WithSuffix(field) == field \o "_json"
\* k.replace("_json", "") on a column name
BareName(col) ==
    IF \E f \in Range(metadata_fields) \cup {"validation_results"} : WithSuffix(f) = col
    THEN CHOOSE f \in Range(metadata_fields) \cup {"validation_results"} : WithSuffix(f) = col
    ELSE col

\* update_draft_metadata line 141
ColOf(field) == IF EndsWithJson(field) THEN field ELSE WithSuffix(field)
\* no check of the column name
KnownColAny(col) == TRUE

\* update_draft_metadata line 142 (negated)
KnownCol(col) == col \in MetadataCols \/ col = VrCol

\* json.dumps of whatever comes
SerializeAlways(raw) == Dumps(raw)

\* a str stored as it comes, whether it parses or not
SerializeStrVerbatim(raw) == IF IsStr(raw) THEN raw.v ELSE Dumps(raw)

\* The double-serialization guard (save_draft_metadata 76-83,
\* update_draft_metadata 158-165): a str that parses is stored verbatim.
Serialize(raw) ==
    IF IsStr(raw)
    THEN IF Loads(raw.v).ok THEN raw.v ELSE Dumps(raw)
    ELSE Dumps(raw)

\* a decoding that returns None for a text json.loads rejects
DecodeColOrNone(text) ==
    IF text = NullT THEN NoneV ELSE Loads(text).val

\* One TEXT column as _row_to_dict returns it: NULL is None, a falsy or
\* undecodable text stays the str it is.
DecodeCol(text) ==
    IF text = NullT THEN NoneV
    ELSE IF Truthy(StrV(text)) /\ Loads(text).ok THEN Loads(text).val
    ELSE StrV(text)

\* _row_to_dict
RowToDict(row) ==
    [row EXCEPT !.cols = [c \in JsonCols |-> DecodeCol(row.cols[c])]]

\* None as get_draft_metadata returns it
NoDraft == [id |-> 0]
IsDraft(d) == d.id # 0

\* ---------------------------------------------------------------- the SQL
\* a SELECT without its WHERE clause
SessionRowsAll(rws, sid) == rws

\* WHERE session_id = ?
SessionRows(rws, sid) == {r \in rws : r.session_id = sid}
\* ORDER BY created_at ASC LIMIT 1
EarliestRows(rws, sid) ==
    {r \in SessionRows(rws, sid) :
        \A q \in SessionRows(rws, sid) : r.created_at <= q.created_at}

\* ORDER BY created_at DESC LIMIT 1: the candidates for the one row returned
LatestRows(rws, sid) ==
    {r \in SessionRows(rws, sid) :
        \A q \in SessionRows(rws, sid) : q.created_at <= r.created_at}
\* an INSERT that stores the subject alone
InsertRowSubjectOnly(rws, id, sid, metadata_json, t) ==
    rws \cup
    {[id |-> id, session_id |-> sid, status |-> "draft",
      created_at |-> t, updated_at |-> t,
      cols |-> [c \in JsonCols |->
                  IF c = "subject_json" /\ "subject" \in DOMAIN metadata_json
                  THEN Serialize(metadata_json["subject"])
                  ELSE NullT]]}

\* INSERT INTO draft_metadata (save_draft_metadata 67-93)
InsertRow(rws, id, sid, metadata_json, t) ==
    rws \cup
    {[id |-> id, session_id |-> sid, status |-> "draft",
      created_at |-> t, updated_at |-> t,
      cols |-> [c \in JsonCols |->
                  IF c \in MetadataCols /\ BareName(c) \in DOMAIN metadata_json
                  THEN Serialize(metadata_json[BareName(c)])
                  ELSE NullT]]}
\* an UPDATE that sets created_at as well
UpdateRowAndCreatedAt(rws, id, col, text, t) ==
    {IF r.id = id
     THEN [r EXCEPT !.cols[col] = text, !.updated_at = t, !.created_at = t]
     ELSE r : r \in rws}

\* an UPDATE that merges a mapping into the mapping the column holds
UpdateRowMerge(rws, id, col, text, t) ==
    {IF r.id = id
     THEN [r EXCEPT !.updated_at = t,
              !.cols[col] =
                  IF IsDict(DecodeCol(@)) /\ IsDict(DecodeCol(text))
                  THEN Dumps(DictV([k \in Keys(DecodeCol(@)) \cup Keys(DecodeCol(text)) |->
                           IF k \in Keys(DecodeCol(text)) THEN DecodeCol(text).v[k]
                           ELSE DecodeCol(@).v[k]]))
                  ELSE text]
     ELSE r : r \in rws}

\* an UPDATE that sets status = 'draft' as well
UpdateRowToDraft(rws, id, col, text, t) ==
    {IF r.id = id
     THEN [r EXCEPT !.cols[col] = text, !.updated_at = t, !.status = "draft"]
     ELSE r : r \in rws}

\* UPDATE draft_metadata SET col = ?, updated_at = ? WHERE id = ?
UpdateRow(rws, id, col, text, t) ==
    {IF r.id = id
     THEN [r EXCEPT !.cols[col] = text, !.updated_at = t]
     ELSE r : r \in rws}
\* DELETE FROM draft_metadata WHERE session_id = ?
DeleteRows(rws, sid) == rws \ SessionRows(rws, sid)
\* an UPDATE that sets status = 'validated'
ValidateRow(rws, id, t) ==
    {IF r.id = id
     THEN [r EXCEPT !.status = "validated", !.updated_at = t]
     ELSE r : r \in rws}

\* an UPDATE of every record of the session of the record
ConfirmSessionRows(rws, id, t) ==
    {IF \E q \in rws : q.id = id /\ q.session_id = r.session_id
     THEN [r EXCEPT !.status = "confirmed", !.updated_at = t]
     ELSE r : r \in rws}

\* UPDATE draft_metadata SET status = 'confirmed', updated_at = ? WHERE id = ?
ConfirmRow(rws, id, t) ==
    {IF r.id = id
     THEN [r EXCEPT !.status = "confirmed", !.updated_at = t]
     ELSE r : r \in rws}

\* ORDER BY updated_at DESC
RECURSIVE UpdatedAtDesc(_)
UpdatedAtDesc(rws) ==
    IF rws = {} THEN {<< >>}
    ELSE UNION {{<< r >> \o rest : rest \in UpdatedAtDesc(rws \ {r})} :
                   r \in {q \in rws : \A o \in rws : o.updated_at <= q.updated_at}}

\* ORDER BY created_at DESC: the orders in which a set of rows may come back
\* (rows of equal created_at in either order)
RECURSIVE CreatedAtDesc(_)
CreatedAtDesc(rws) ==
    IF rws = {} THEN {<< >>}
    ELSE UNION {{<< r >> \o rest : rest \in CreatedAtDesc(rws \ {r})} :
                   r \in {q \in rws : \A o \in rws : o.created_at <= q.created_at}}
\* ORDER BY created_at ASC
RECURSIVE CreatedAtAsc(_)
CreatedAtAsc(rws) ==
    IF rws = {} THEN {<< >>}
    ELSE UNION {{<< r >> \o rest : rest \in CreatedAtAsc(rws \ {r})} :
                   r \in {q \in rws : \A o \in rws : q.created_at <= o.created_at}}

\* a list that ignores its status_filter
ListEveryRow(rws, status_filter) ==
    {[i \in 1..Len(ordered) |-> RowToDict(ordered[i])] :
        ordered \in CreatedAtDesc(rws)}

\* list_all_drafts: with a truthy status_filter WHERE status = ?, otherwise
\* every row; each row through _row_to_dict
list_all_drafts(rws, status_filter) ==
    LET selected == IF Truthy(status_filter)
                    THEN {r \in rws : r.status = status_filter.v.p}
                    ELSE rws
    IN  {[i \in 1..Len(ordered) |-> RowToDict(ordered[i])] :
            ordered \in CreatedAtDesc(selected)}

\* WHERE session_id = ? on conversations
SessionTurns(convs, sid) == {t \in convs : t.session_id = sid}
\* INSERT INTO conversations (session_id, role, content): id is the
\* AUTOINCREMENT key, created_at the DEFAULT datetime('now')
InsertTurn(convs, id, sid, role, content, t) ==
    convs \cup {[id |-> id, session_id |-> sid, role |-> role,
                 content |-> content, created_at |-> t]}
\* a DELETE that removes no turn
DeleteNoTurns(convs, sid) == convs

\* DELETE FROM conversations WHERE session_id = ?
DeleteTurns(convs, sid) == convs \ SessionTurns(convs, sid)
\* get_conversation_history: role, content, created_at of the session's
\* turns, ORDER BY created_at ASC
get_conversation_history(convs, sid) ==
    {[i \in 1..Len(ordered) |->
         [role |-> ordered[i].role, content |-> ordered[i].content,
          created_at |-> ordered[i].created_at]] :
        ordered \in CreatedAtAsc(SessionTurns(convs, sid))}

\* ------------------------------------------------- the validation engine
\* agent/validation.py is not among the sources: validate_metadata follows
\* the specification's section 4.2 and the tests of test_validation.py.
Str(lit) == StrV(RawT(lit))
\* dict.get(key)
Get(val, key) == IF IsDict(val) /\ key \in Keys(val) THEN val.v[key] ELSE NoneV
\* the section of a snapshot (a function from bare section names to values)
SectionOf(snapshot, name) ==
    IF name \in DOMAIN snapshot THEN snapshot[name] ELSE NoneV
Present(val) == val # NoneV

RequiredPaths ==
    << <<"subject", "subject_id">>, <<"data_description", "modality">>,
       <<"data_description", "project_name">> >>
PathName(path) == path[1] \o "." \o path[2]
PathValue(snapshot, path) == Get(SectionOf(snapshot, path[1]), path[2])

VALID_SEX == {Str("Male"), Str("Female")}
KnownModalities ==
    {Str(a) : a \in {"behavior", "behavior-videos", "confocal", "EMG", "ecephys",
                     "fib", "fMOST", "icephys", "ISI", "MRI", "merfish", "pophys",
                     "slap", "SPIM"}}
\* every known modality taken for a physiology one
PhysiologyModalitiesAll == KnownModalities

PhysiologyModalities == {Str(a) : a \in {"ecephys", "pophys", "icephys", "fib"}}
KnownSpecies == {Str("Mus musculus"), Str("Homo sapiens")}
MinSubjectIdLen == 3

\* len() of a str: of a raw text its characters, of a numeral its digits
RECURSIVE Digits(_)
Digits(n) == IF n < 10 THEN 1 ELSE 1 + Digits(n \div 10)
StrLen(val) ==
    IF ~IsStr(val) THEN MinSubjectIdLen
    ELSE IF val.v.k = "raw" THEN Len(val.v.p)
    ELSE IF val.v.p.t = "num" THEN Digits(val.v.p.v)
    ELSE MinSubjectIdLen

Issue(field, message, severity) ==
    DictV([field |-> Str(field), message |-> Str(message), severity |-> Str(severity)])

\* the abbreviations listed under data_description.modality
Abbreviations(snapshot) ==
    LET m == PathValue(snapshot, <<"data_description", "modality">>)
    IN  IF m.t = "list" THEN [i \in 1..Len(m.v) |-> Get(m.v[i], "abbreviation")]
        ELSE << >>

MissingRequired(snapshot) ==
    SelectSeq(RequiredPaths, LAMBDA path : ~Present(PathValue(snapshot, path)))

ShortSubjectId(snapshot) ==
    LET sid == PathValue(snapshot, <<"subject", "subject_id">>)
    IN  Present(sid) /\ StrLen(sid) < MinSubjectIdLen

Issues(snapshot) ==
    LET subject == SectionOf(snapshot, "subject")
        procedures == SectionOf(snapshot, "procedures")
        sex == Get(subject, "sex")
        species == Get(Get(subject, "species"), "name")
        thickness == Get(procedures, "section_thickness_um")
        abbrs == Abbreviations(snapshot)
    IN  (IF Present(sex) /\ sex \notin VALID_SEX
         THEN << Issue("subject.sex", "invalid sex", "error") >> ELSE << >>)
        \o [i \in 1..Len(SelectSeq(abbrs, LAMBDA a : a \notin KnownModalities)) |->
              Issue("data_description.modality", "unknown modality", "error")]
        \o (IF Present(species) /\ species \notin KnownSpecies
            THEN << Issue("subject.species", "unknown species", "warning") >> ELSE << >>)
        \o (IF ShortSubjectId(snapshot)
            THEN << Issue("subject.subject_id", "short subject_id", "warning") >> ELSE << >>)
        \o (IF thickness.t = "num" /\ thickness.v <= 0
            THEN << Issue("procedures.section_thickness_um", "not positive", "error") >>
            ELSE << >>)
        \o (IF (\E i \in 1..Len(abbrs) : abbrs[i] \in PhysiologyModalities)
               /\ ~Present(SectionOf(snapshot, "session"))
            THEN << Issue("session", "session expected", "warning") >> ELSE << >>)

ValidFields(snapshot) ==
    LET procedures == SectionOf(snapshot, "procedures")
        thickness == Get(procedures, "section_thickness_um")
    IN  [i \in 1..Len(SelectSeq(RequiredPaths, LAMBDA path :
                Present(PathValue(snapshot, path))
                /\ ~(path[2] = "subject_id" /\ ShortSubjectId(snapshot)))) |->
            Str(PathName(SelectSeq(RequiredPaths, LAMBDA path :
                Present(PathValue(snapshot, path))
                /\ ~(path[2] = "subject_id" /\ ShortSubjectId(snapshot)))[i]))]
        \o (IF thickness.t = "num" /\ thickness.v > 0
            THEN << Str("procedures.section_thickness_um") >> ELSE << >>)
        \o (IF IsDict(Get(procedures, "coordinates"))
            THEN << Str("procedures.coordinates") >> ELSE << >>)

WithSeverity(issues, severity) ==
    SelectSeq(issues, LAMBDA i : i.v.severity = Str(severity))

\* a verdict whose status also turns to errors on a warning or on a missing
\* required path
validate_metadata_strict(snapshot) ==
    LET issues == Issues(snapshot)
        missing == MissingRequired(snapshot)
    IN  DictV([status |->
                   IF Len(issues) > 0 \/ Len(missing) > 0
                   THEN Str("errors") ELSE Str("valid"),
               completeness_score |->
                   [t |-> "float", v |-> << Len(RequiredPaths) - Len(missing),
                                            Len(RequiredPaths) >>],
               errors |-> ListV(WithSeverity(issues, "error")),
               warnings |-> ListV(WithSeverity(issues, "warning")),
               missing_required |->
                   ListV([i \in 1..Len(missing) |-> Str(PathName(missing[i]))]),
               valid_fields |-> ListV(ValidFields(snapshot))])
\* a verdict whose score counts the valid fields, optional ones included
validate_metadata_valid_score(snapshot) ==
    LET issues == Issues(snapshot)
        missing == MissingRequired(snapshot)
    IN  DictV([status |->
                   IF Len(WithSeverity(issues, "error")) > 0
                   THEN Str("errors") ELSE Str("valid"),
               completeness_score |->
                   [t |-> "float", v |-> << Len(ValidFields(snapshot)),
                                            Len(RequiredPaths) >>],
               errors |-> ListV(WithSeverity(issues, "error")),
               warnings |-> ListV(WithSeverity(issues, "warning")),
               missing_required |->
                   ListV([i \in 1..Len(missing) |-> Str(PathName(missing[i]))]),
               valid_fields |-> ListV(ValidFields(snapshot))])

\* validate_metadata(snapshot).to_dict()
validate_metadata(snapshot) ==
    LET issues == Issues(snapshot)
        missing == MissingRequired(snapshot)
    IN  DictV([status |->
                   IF Len(WithSeverity(issues, "error")) > 0
                   THEN Str("errors") ELSE Str("valid"),
               completeness_score |->
                   [t |-> "float", v |-> << Len(RequiredPaths) - Len(missing),
                                            Len(RequiredPaths) >>],
               errors |-> ListV(WithSeverity(issues, "error")),
               warnings |-> ListV(WithSeverity(issues, "warning")),
               missing_required |->
                   ListV([i \in 1..Len(missing) |-> Str(PathName(missing[i]))]),
               valid_fields |-> ListV(ValidFields(snapshot))])

\* ----------------------------------------------------------------- state
VARIABLES
    rows,     \* the draft_metadata table: a set of rows
    clock,    \* the next value of datetime.now()
    nextId,   \* the next uuid4
    calls,    \* per coroutine: the operation it runs and where it is suspended
    lastRun,  \* history: per session, the snapshot its latest validation run read
    vrFrom,   \* history: per row id, who wrote validation_results last, from what
    conversations,  \* the conversations table: a set of rows
    nextTurn  \* the next AUTOINCREMENT id of conversations
vars == << rows, clock, nextId, calls, lastRun, vrFrom, conversations, nextTurn >>

\* the coroutines that may run at once
Calls == {"c1", "c2"}

IdleCall ==
    [op |-> "idle", pc |-> "idle", args |-> << >>, sid |-> NoneV,
     metadata |-> << >>, draft |-> NoDraft, todo |-> << >>, phase |-> "",
     u |-> [col |-> "", val |-> NoneV, t |-> 0, id |-> 0],
     snap |-> << >>, res |-> "", touched |-> FALSE,
     out |-> << >>, n |-> 0, n2 |-> 0, bare_metadata |-> << >>]

\* args.get(name)
ArgGet(args, name) == IF name \in DOMAIN args THEN args[name] ELSE NoneV

\* capture_metadata_handler 52-63: the non-None section arguments, a str
\* argument replaced by what it decodes to when it decodes
CollectValue(value) ==
    IF IsStr(value) /\ Loads(value.v).ok THEN Loads(value.v).val ELSE value
Collect(args) ==
    [f \in {g \in Range(metadata_fields) : ArgGet(args, g) # NoneV} |->
        CollectValue(args[f])]

\* a merge that descends into nested mappings
MergeValueDeep(existing, value) ==
    IF IsDict(existing) /\ IsDict(value)
    THEN DictV([k \in Keys(existing) \cup Keys(value) |->
                   IF k \notin Keys(value) THEN existing.v[k]
                   ELSE IF k \in Keys(existing) /\ IsDict(existing.v[k])
                           /\ IsDict(value.v[k])
                   THEN DictV([j \in Keys(existing.v[k]) \cup Keys(value.v[k]) |->
                                  IF j \in Keys(value.v[k]) THEN value.v[k].v[j]
                                  ELSE existing.v[k].v[j]])
                   ELSE value.v[k]])
    ELSE value

\* capture_metadata_handler 86-92: the value written for one section
MergeValue(existing, value) ==
    IF IsDict(existing) /\ IsDict(value)
    THEN DictV([k \in Keys(existing) \cup Keys(value) |->
                   IF k \in Keys(value) THEN value.v[k] ELSE existing.v[k]])
    ELSE value

\* a check for None alone
SessionIdIsNone(session_id) == session_id = NoneV

\* capture_metadata_handler 29: if not session_id
SessionIdMissing(session_id) == ~Truthy(session_id)

\* a snapshot of every non-null column that ends with _json
BareMetadataEveryJson(draft) ==
    [f \in {BareName(c) : c \in {d \in JsonCols : draft.cols[d] # NoneV}} |->
        draft.cols[WithSuffix(f)]]

\* capture_metadata_handler 100-104: the snapshot handed to the validator
BareMetadata(draft) ==
    [f \in {BareName(c) : c \in {d \in JsonCols :
                d # VrCol /\ draft.cols[d] # NoneV}} |->
        draft.cols[WithSuffix(f)]]

\* validating the draft read before the writes
ValidationInputStale(call, updated_draft) ==
    IF IsDraft(call.draft) THEN BareMetadata(call.draft) ELSE << >>

\* capture_metadata_handler 98-105: what is validated is the draft read
\* after the writes (updated_draft), not the one read before them (draft)
ValidationInput(call, updated_draft) == BareMetadata(updated_draft)

\* history: the non-null sections of a draft as read, by bare name
SectionsOf(draft) ==
    [f \in {g \in Range(metadata_fields) : draft.cols[WithSuffix(g)] # NoneV} |->
        draft.cols[WithSuffix(f)]]

\* get_draft_metadata: the decoded candidates, or None
GetDraft(rws, sid) ==
    IF LatestRows(rws, sid) = {} THEN {NoDraft}
    ELSE {RowToDict(r) : r \in LatestRows(rws, sid)}

\* update_draft_metadata 141-146 entered by a call: suspended at its SELECT
BeginUpdate(call, field, value, t) ==
    [call EXCEPT !.pc = "usel", !.touched = TRUE,
                 !.u = [col |-> ColOf(field), val |-> value, t |-> t, id |-> 0]]

\* what the caller of update_draft_metadata does when it returns
AfterUpdate(call, t) ==
    IF call.op = "update" THEN [call EXCEPT !.pc = "done"]
    ELSE IF call.todo # << >>
    THEN LET field == Head(call.todo)
         IN  BeginUpdate([call EXCEPT !.todo = Tail(call.todo)], field,
                 MergeValue(call.draft.cols[WithSuffix(field)], call.metadata[field]), t)
    ELSE IF call.phase = "fields" THEN [call EXCEPT !.pc = "reread"]
    ELSE [call EXCEPT !.pc = "done", !.res = "saved"]

\* the program points reached by reading datetime.now(): the entries of
\* save_draft_metadata (65), update_draft_metadata (146), confirm_metadata (216)
ClockReads == {"usel", "insert", "csel"}

\* One atomic step of coroutine c: it becomes nc, draft_metadata becomes rws
\* and conversations becomes convs.  A step that enters save_draft_metadata,
\* update_draft_metadata or confirm_metadata reads the clock.
StepAll(c, nc, rws, convs) ==
    /\ nc.pc \in ClockReads => clock <= MaxClock
    /\ clock' = IF nc.pc \in ClockReads THEN clock + 1 ELSE clock
    /\ conversations' = convs
    /\ nextTurn' = IF \E t \in convs : t.id = nextTurn THEN nextTurn + 1 ELSE nextTurn
    /\ nextId' = IF nc.pc = "insert" THEN nextId + 1 ELSE nextId
    /\ rows' = rws
    /\ calls' = [calls EXCEPT ![c] = nc]
    /\ lastRun' = IF calls[c].pc = "reread" /\ nc.phase = "vr"
                  THEN [lastRun EXCEPT ![nc.sid] = nc.snap] ELSE lastRun
    /\ vrFrom' = IF calls[c].pc = "uwrite" /\ calls[c].u.col = VrCol
                 THEN (calls[c].u.id :> [by |-> calls[c].op, snap |-> calls[c].snap])
                      @@ vrFrom
                 ELSE vrFrom

\* a step that leaves the conversations table alone
Step(c, nc, rws) == StepAll(c, nc, rws, conversations)

\* ---------------------------------------------------------------- inputs
SessionIds == {Str("s1"), Str("s2")}
\* a session_id argument: missing, empty, or naming a session
SessionArgs == SessionIds \cup {NoneV, Str("")}

SubjectId == DictV([subject_id |-> StrV(JsonT(NumV(553429)))])
SubjectSex == DictV([sex |-> Str("Unknown")])
SpeciesName == DictV([species |-> DictV([name |-> Str("Mus musculus")])])
SpeciesStrain == DictV([species |-> DictV([strain |-> Str("C57BL/6J")])])
Ecephys ==
    DictV([modality |-> ListV(<< DictV([abbreviation |-> Str("ecephys")]) >>)])

\* the section arguments of a capture request
CapturePayloads ==
    { << >>,
      [subject |-> NoneV],
      [subject |-> EmptyDict],
      [subject |-> StrV(JsonT(NoneV))],
      [subject |-> StrV(JsonT(EmptyDict))],
      [subject |-> Str("free text")],
      [subject |-> SubjectId],
      [subject |-> StrV(JsonT(SubjectSex))],
      [subject |-> SpeciesName],
      [subject |-> SpeciesStrain],
      [subject |-> SubjectSex, data_description |-> Ecephys] }
\* the capture requests: every payload on s1, a second session to hold
\* another record, and the missing and the empty session_id
CaptureArgs ==
    {[session_id |-> Str("s1")] @@ p : p \in CapturePayloads}
    \cup {[session_id |-> Str("s2"), subject |-> SpeciesName]}
    \cup {p : p \in {<< >>, [subject |-> SubjectId]}}
    \cup {[session_id |-> Str("")] @@ p : p \in {<< >>, [subject |-> SubjectId]}}

\* the capture requests of the interleaved runs
RaceArgs ==
    {[session_id |-> Str("s1")] @@ p :
        p \in {[subject |-> SubjectSex], [data_description |-> Ecephys]}}

\* the arguments of save_draft_metadata called directly: a mapping on s1;
\* on s2 a str holding JSON, a list and a number
CreateArgs ==
    { [session_id |-> Str("s1"), metadata_json |-> [subject |-> SubjectId]],
      [session_id |-> Str("s2"),
       metadata_json |-> [subject |-> StrV(JsonT(SubjectSex)),
                          session |-> ListV(<< NumV(1) >>),
                          rig |-> NumV(7)]] }
\* the values written by update_draft_metadata in the runs of the store:
\* a str that is no JSON, strs that are JSON ("123", "null", a mapping)
StoreUpdateValues ==
    { Str("free text"), StrV(JsonT(NumV(123))), StrV(JsonT(NoneV)),
      StrV(JsonT(SubjectSex)) }
\* the capture requests in the runs of the store
StoreCaptureArgs ==
    {[session_id |-> Str("s1"), subject |-> v] :
        v \in {SpeciesName, StrV(JsonT(SubjectSex))}}
\* the status_filter arguments of list_all_drafts
StatusFilters == {NoneV, Str(""), Str("draft"), Str("confirmed"), Str("validated")}

\* the field names and values passed to update_draft_metadata directly
UpdateFields == {"subject", "session_json", "validation_results", "nonexistent_field"}
UpdateValues == {SubjectSex, StrV(JsonT(SubjectId))}

\* --------------------------------------------------------------- actions
Init ==
    /\ rows = {}
    /\ clock = 1
    /\ nextId = 1
    /\ calls = [c \in Calls |-> IdleCall]
    /\ lastRun = [sid \in SessionIds |-> << >>]
    /\ vrFrom = << >>
    /\ conversations = {}
    /\ nextTurn = 1

\* capture_metadata_handler 28-73: the checks before the first await
CaptureCall(c, args) ==
    /\ calls[c].op = "idle"
    /\ LET session_id == ArgGet(args, "session_id")
           metadata == Collect(args)
           call == [IdleCall EXCEPT !.op = "capture", !.args = args,
                                    !.sid = session_id]
       IN  Step(c,
                IF SessionIdMissing(session_id)
                THEN [call EXCEPT !.pc = "done", !.res = "session_id_required"]
                ELSE IF DOMAIN metadata = {}
                THEN [call EXCEPT !.pc = "done", !.res = "no_fields"]
                ELSE [call EXCEPT !.pc = "get", !.metadata = metadata],
                rows)

\* capture_metadata_handler 77-92: the draft is read; without one
\* save_draft_metadata is entered (64-85), with one the first section's
\* update_draft_metadata
CapGet(c) ==
    /\ calls[c].pc = "get"
    /\ \E d \in GetDraft(rows, calls[c].sid) :
         LET call == [calls[c] EXCEPT !.draft = d, !.touched = TRUE]
         IN  Step(c,
                  IF ~IsDraft(d)
                  THEN [call EXCEPT !.pc = "insert", !.u.t = clock, !.u.id = nextId]
                  ELSE AfterUpdate(
                           [call EXCEPT !.phase = "fields",
                               !.todo = SelectSeq(metadata_fields,
                                   LAMBDA f : f \in DOMAIN call.metadata)],
                           clock),
                  rows)

\* save_draft_metadata 90-96: the INSERT (the row read back is not used);
\* capture goes on to its re-read, a direct call returns
CapInsert(c) ==
    /\ calls[c].pc = "insert"
    /\ Step(c,
            IF calls[c].op = "create"
            THEN [calls[c] EXCEPT !.pc = "done", !.res = "created"]
            ELSE [calls[c] EXCEPT !.pc = "reread"],
            InsertRow(rows, calls[c].u.id, calls[c].sid, calls[c].metadata,
                      calls[c].u.t))

\* update_draft_metadata 149-155: the SELECT of the latest row's id
UpdSelect(c) ==
    /\ calls[c].pc = "usel"
    /\ IF LatestRows(rows, calls[c].sid) = {}
       THEN Step(c,
                 AfterUpdate(
                     [calls[c] EXCEPT !.res =
                         IF calls[c].op = "update" THEN "not_found" ELSE @],
                     clock),
                 rows)
       ELSE \E r \in LatestRows(rows, calls[c].sid) :
                Step(c, [calls[c] EXCEPT !.pc = "uwrite", !.u.id = r.id], rows)

\* update_draft_metadata 157-172: the UPDATE (an unknown column makes the
\* statement fail); the row read back is used by no caller in the model
UpdWrite(c) ==
    /\ calls[c].pc = "uwrite"
    /\ IF calls[c].u.col \notin JsonCols
       THEN Step(c, [calls[c] EXCEPT !.pc = "done", !.res = "raised"], rows)
       ELSE Step(c,
                 AfterUpdate(
                     [calls[c] EXCEPT !.res =
                         IF calls[c].op = "update" THEN "updated" ELSE @],
                     clock),
                 UpdateRow(rows, calls[c].u.id, calls[c].u.col,
                           Serialize(calls[c].u.val), calls[c].u.t))

\* capture_metadata_handler 98-106: the draft is read again and validated,
\* update_draft_metadata is entered for validation_results
CapReread(c) ==
    /\ calls[c].pc = "reread"
    /\ \E d \in GetDraft(rows, calls[c].sid) :
         Step(c,
              IF IsDraft(d)
              THEN BeginUpdate([calls[c] EXCEPT !.phase = "vr",
                                                !.snap = SectionsOf(d),
                                                !.bare_metadata =
                                                    ValidationInput(calls[c], d)],
                               "validation_results",
                               validate_metadata(ValidationInput(calls[c], d)),
                               clock)
              ELSE [calls[c] EXCEPT !.pc = "done", !.res = "saved"],
              rows)

\* the awaits inside the try block of capture_metadata_handler (77-106) at
\* which a coroutine is suspended: each may raise instead of returning
TryPoints == {"get", "insert", "usel", "uwrite", "reread"}
\* an except clause that lets the exception through to the caller
ExceptReraise(call, e) ==
    [call EXCEPT !.pc = "done", !.res = "raised",
                 !.out = [error |-> e, at |-> call.pc]]

\* capture_metadata_handler 124-138: the response for an exception e
\* (at: where it was raised, as the logged traceback has it)
Except(call, e) ==
    [call EXCEPT !.pc = "done", !.res = "error",
                 !.out = [error |-> e, at |-> call.pc]]
\* a failure that undoes what the call has written
RowsRolledBack(rws, call) ==
    IF ~call.touched THEN rws
    ELSE IF ~IsDraft(call.draft) THEN DeleteRows(rws, call.sid)
    ELSE {IF r.id = call.draft.id
          THEN [r EXCEPT !.cols = [col \in JsonCols |->
                    IF call.draft.cols[col] = NoneV THEN NullT
                    ELSE Dumps(call.draft.cols[col])]]
          ELSE r : r \in rws}

\* the table after an exception: every statement before it was committed
\* when it ran (save_draft_metadata 94, update_draft_metadata 171) and the
\* except clause issues no rollback
RowsAfterFailure(rws, call) == rws

\* the store or an encoder raises e in the statement the capture call is
\* about to run: the statement has no effect, the except clause answers
RaiseIn(c, e) ==
    /\ calls[c].op = "capture"
    /\ calls[c].pc \in TryPoints
    /\ Step(c, Except(calls[c], e), RowsAfterFailure(rows, calls[c]))

\* validate_metadata called on a snapshot: entered, then the verdict
ValidateCall(c, snapshot) ==
    /\ calls[c].op = "idle"
    /\ Step(c, [IdleCall EXCEPT !.op = "validate", !.pc = "call",
                    !.args = [metadata |-> snapshot]], rows)
Validate(c) ==
    /\ calls[c].op = "validate" /\ calls[c].pc = "call"
    /\ Step(c, [calls[c] EXCEPT !.pc = "done", !.res = "validated",
                    !.out = validate_metadata(calls[c].args.metadata)], rows)

\* ---- service.py chat: an async generator; its events are kept in out, the
\* history it read in metadata, prior_history in snap, full_response in todo,
\* the id and second of the user turn it saved in u
Event(type, value) == [type |-> type, value |-> value]
\* datetime('now') of an INSERT into conversations: the second of the latest
\* turn or a later one
TurnSeconds(convs) ==
    LET latest == IF convs = {} THEN 1
                  ELSE CHOOSE m \in {t.created_at : t \in convs} :
                           \A t \in convs : t.created_at <= m
    IN  {latest, latest + 1}
\* history[:-1] if history else []
AllButLast(history) ==
    IF history = << >> THEN << >> ELSE SubSeq(history, 1, Len(history) - 1)
\* what the agent query does: the text deltas it streams, and whether it
\* then raises
AgentRuns ==
    {[text |-> t, raises |-> r] : t \in {<< >>, << "ok" >>}, r \in BOOLEAN}
FallbackMessage == "I encountered an error processing your request. Please try again."
\* "".join(full_response).strip() is not empty
HasText(full_response) == full_response # << >>

\* chat 119: the call makes the generator; nothing runs before the first
\* event is asked for
ChatCall(c, sid, user_message) ==
    /\ calls[c].op = "idle"
    /\ Step(c, [IdleCall EXCEPT !.op = "chat", !.pc = "begin", !.sid = sid,
                    !.args = [session_id |-> sid, user_message |-> user_message]],
            rows)
\* chat 135-138: the user turn is saved, the session_id event is yielded
ChatSaveUser(c) ==
    /\ calls[c].op = "chat" /\ calls[c].pc = "begin"
    /\ nextTurn <= MaxTurns
    /\ \E second \in TurnSeconds(conversations) :
           StepAll(c,
                   [calls[c] EXCEPT !.pc = "hist", !.touched = TRUE,
                       !.u.id = nextTurn, !.u.t = second,
                       !.out = << Event("session_id", calls[c].sid) >>],
                   rows,
                   InsertTurn(conversations, nextTurn, calls[c].sid, "user",
                              calls[c].args.user_message, second))
\* chat 141-144: the history is read, its last turn left out of the prompt
ChatHistory(c) ==
    /\ calls[c].op = "chat" /\ calls[c].pc = "hist"
    /\ \E history \in get_conversation_history(conversations, calls[c].sid) :
           Step(c, [calls[c] EXCEPT !.pc = "draft", !.metadata = history,
                       !.snap = AllButLast(history)], rows)
\* chat 147-156: the draft is read for the prompt
ChatDraft(c) ==
    /\ calls[c].op = "chat" /\ calls[c].pc = "draft"
    /\ \E d \in GetDraft(rows, calls[c].sid) :
           Step(c, [calls[c] EXCEPT !.pc = "query", !.draft = d], rows)
\* chat 159-198: the agent streams its text, one content event per delta;
\* when the query raises, the fallback message is one more content event
ChatQuery(c, run) ==
    /\ calls[c].op = "chat" /\ calls[c].pc = "query"
    /\ LET full_response ==
               run.text \o (IF run.raises THEN << FallbackMessage >> ELSE << >>)
       IN  Step(c, [calls[c] EXCEPT !.pc = "save", !.todo = full_response,
                       !.phase = IF run.raises THEN "fallback" ELSE "answered",
                       !.out = @ \o [i \in 1..Len(full_response) |->
                                        Event("content", full_response[i])]],
                rows)
\* chat 200-208: the assistant turn is saved when there is text (its
\* content, the joined text, is kept as the sequence of its parts), the done
\* event is yielded and the generator ends
ChatFinish(c) ==
    /\ calls[c].op = "chat" /\ calls[c].pc = "save"
    /\ LET nc == [calls[c] EXCEPT !.pc = "done", !.res = "finished",
                      !.out = @ \o << Event("done", TRUE) >>]
       IN  IF HasText(calls[c].todo)
           THEN /\ nextTurn <= MaxTurns
                /\ \E second \in TurnSeconds(conversations) :
                       StepAll(c, nc, rows,
                               InsertTurn(conversations, nextTurn, calls[c].sid,
                                          "assistant", calls[c].todo, second))
           ELSE Step(c, nc, rows)
\* the store calls of chat (135, 141, 147, 203) are outside its try block:
\* when one raises, the exception leaves the generator
ChatStoreCalls == {"begin", "hist", "draft", "save"}
ChatStoreRaises(c) ==
    /\ calls[c].op = "chat" /\ calls[c].pc \in ChatStoreCalls
    /\ calls[c].pc = "save" => HasText(calls[c].todo)
    /\ Step(c, [calls[c] EXCEPT !.pc = "done", !.res = "raised",
                    !.phase = calls[c].pc], rows)

\* update_draft_metadata called directly: 141-146
UpdateCall(c, sid, field, value) ==
    /\ calls[c].op = "idle"
    /\ LET call == [IdleCall EXCEPT !.op = "update", !.sid = sid,
                       !.args = [session_id |-> sid, field |-> Str(field),
                                 value |-> value]]
       IN  Step(c,
                IF ~KnownCol(ColOf(field))
                THEN [call EXCEPT !.pc = "done", !.res = "unknown_field"]
                ELSE BeginUpdate(call, field, value, clock),
                rows)

\* delete_session 239-240: the DELETE on conversations, c1.rowcount kept
DeleteCall(c, sid) ==
    /\ calls[c].op = "idle"
    /\ StepAll(c,
               [IdleCall EXCEPT !.op = "delete", !.pc = "ddraft", !.sid = sid,
                   !.args = [session_id |-> sid], !.touched = TRUE,
                   !.n = Cardinality(SessionTurns(conversations, sid))],
               rows, DeleteTurns(conversations, sid))

\* delete_session 241-243: the DELETE on draft_metadata, the commit and the
\* result (c1.rowcount or 0) + (c2.rowcount or 0) > 0
DelDrafts(c) ==
    /\ calls[c].pc = "ddraft"
    /\ Step(c,
            [calls[c] EXCEPT !.pc = "done",
                !.n2 = Cardinality(SessionRows(rows, calls[c].sid)),
                !.res = IF calls[c].n + Cardinality(SessionRows(rows, calls[c].sid)) > 0
                        THEN "deleted" ELSE "nothing_deleted"],
            DeleteRows(rows, calls[c].sid))

\* save_draft_metadata called directly: 63-85, up to the INSERT
CreateCall(c, sid, metadata_json) ==
    /\ calls[c].op = "idle"
    /\ Step(c,
            [IdleCall EXCEPT !.op = "create", !.pc = "insert", !.sid = sid,
                !.args = [session_id |-> sid, metadata_json |-> metadata_json],
                !.metadata = metadata_json, !.touched = TRUE,
                !.u.t = clock, !.u.id = nextId],
            rows)

\* confirm_metadata 215-216: entry, datetime.now()
ConfirmCall(c, sid) ==
    /\ calls[c].op = "idle"
    /\ Step(c,
            [IdleCall EXCEPT !.op = "confirm", !.pc = "csel", !.sid = sid,
                !.args = [session_id |-> sid], !.touched = TRUE, !.u.t = clock],
            rows)

\* confirm_metadata 218-224: the SELECT of the latest row's id
ConfSelect(c) ==
    /\ calls[c].pc = "csel"
    /\ IF LatestRows(rows, calls[c].sid) = {}
       THEN Step(c, [calls[c] EXCEPT !.pc = "done", !.res = "not_found"], rows)
       ELSE \E r \in LatestRows(rows, calls[c].sid) :
                Step(c, [calls[c] EXCEPT !.pc = "cwrite", !.u.id = r.id], rows)

\* confirm_metadata 226-231: the UPDATE of status and updated_at
ConfWrite(c) ==
    /\ calls[c].pc = "cwrite"
    /\ Step(c, [calls[c] EXCEPT !.pc = "done", !.res = "confirmed"],
            ConfirmRow(rows, calls[c].u.id, calls[c].u.t))

\* get_draft_metadata called directly: what it returns
GetCall(c, sid) ==
    /\ calls[c].op = "idle"
    /\ \E d \in GetDraft(rows, sid) :
         Step(c,
              [IdleCall EXCEPT !.op = "get", !.pc = "done", !.sid = sid,
                  !.args = [session_id |-> sid], !.out = d,
                  !.res = IF IsDraft(d) THEN "found" ELSE "not_found"],
              rows)

\* list_all_drafts: what it returns
ListCall(c, status_filter) ==
    /\ calls[c].op = "idle"
    /\ \E result \in list_all_drafts(rows, status_filter) :
         Step(c,
              [IdleCall EXCEPT !.op = "list", !.pc = "done",
                  !.args = [status_filter |-> status_filter],
                  !.out = result, !.res = "listed"],
              rows)

\* save_conversation_turn: the INSERT; datetime('now') counts seconds, so a
\* turn gets the second of the latest turn or a later one
SaveTurnCall(c, sid, role, content) ==
    /\ calls[c].op = "idle"
    /\ nextTurn <= MaxTurns
    /\ LET latest == IF conversations = {} THEN 1
                     ELSE CHOOSE m \in {t.created_at : t \in conversations} :
                              \A t \in conversations : t.created_at <= m
       IN  \E second \in {latest, latest + 1} :
               StepAll(c,
                       [IdleCall EXCEPT !.op = "turn", !.pc = "done", !.sid = sid,
                           !.args = [session_id |-> sid, role |-> role,
                                     content |-> content],
                           !.res = "turn_saved"],
                       rows,
                       InsertTurn(conversations, nextTurn, sid, role, content, second))

\* get_conversation_history: what it returns
HistoryCall(c, sid) ==
    /\ calls[c].op = "idle"
    /\ \E result \in get_conversation_history(conversations, sid) :
         Step(c,
              [IdleCall EXCEPT !.op = "history", !.pc = "done", !.sid = sid,
                  !.args = [session_id |-> sid], !.out = result,
                  !.res = "history"],
              rows)

\* the caller takes the result: the coroutine is free again
Return(c) ==
    /\ calls[c].pc = "done"
    /\ Step(c, IdleCall, rows)

\* The operations, run by the coroutines of callSet on the given requests.
NextOn(callSet, captureArgs, updateSids, updateFields, updateValues, deleteSids) ==
    \E c \in callSet :
        \/ \E args \in captureArgs : CaptureCall(c, args)
        \/ CapGet(c)
        \/ CapInsert(c)
        \/ UpdSelect(c)
        \/ UpdWrite(c)
        \/ CapReread(c)
        \/ \E sid \in updateSids, field \in updateFields, value \in updateValues :
               UpdateCall(c, sid, field, value)
        \/ \E sid \in deleteSids : DeleteCall(c, sid)
        \/ DelDrafts(c)
        \/ Return(c)

\* One operation at a time, on every request shape.
Next ==
    NextOn({"c1"}, CaptureArgs, SessionIds, UpdateFields, UpdateValues, SessionIds)
Spec == Init /\ [][Next]_vars

\* The operations of the store called directly, one at a time, next to
\* capture: create, update, confirm, delete, get and list.
NextStore ==
    \/ NextOn({"c1"}, StoreCaptureArgs, {Str("s1")}, {"subject"},
              StoreUpdateValues, SessionIds)
    \/ \E a \in CreateArgs : CreateCall("c1", a.session_id, a.metadata_json)
    \/ \E sid \in SessionIds : ConfirmCall("c1", sid)
    \/ ConfSelect("c1")
    \/ ConfWrite("c1")
    \/ \E sid \in SessionIds : GetCall("c1", sid)
    \/ \E status_filter \in StatusFilters : ListCall("c1", status_filter)
SpecStore == Init /\ [][NextStore]_vars

\* The conversations table next to the drafts: turns saved, read and
\* deleted with the session.
NextTurns ==
    \/ \E sid \in SessionIds : SaveTurnCall("c1", sid, "user", "hello")
    \/ \E sid \in SessionIds : HistoryCall("c1", sid)
    \/ \E sid \in SessionIds : CreateCall("c1", sid, [subject |-> SubjectId])
    \/ CapInsert("c1")
    \/ \E sid \in SessionIds : GetCall("c1", sid)
    \/ \E sid \in SessionIds : DeleteCall("c1", sid)
    \/ DelDrafts("c1")
    \/ Return("c1")
SpecTurns == Init /\ [][NextTurns]_vars

\* Capture requests during which the store may fail: one section, then two.
FailArgs ==
    {[session_id |-> Str("s1")] @@ p :
        p \in {[subject |-> SubjectId],
               [subject |-> SubjectSex, data_description |-> Ecephys]}}
\* str(e) of a failing statement and of a failing encoder
FailureMessages ==
    {Str("database is locked"),
     Str("Object of type set is not JSON serializable")}
NextFail ==
    \/ \E args \in FailArgs : CaptureCall("c1", args)
    \/ CapGet("c1")
    \/ CapInsert("c1")
    \/ UpdSelect("c1")
    \/ UpdWrite("c1")
    \/ CapReread("c1")
    \/ \E e \in FailureMessages : RaiseIn("c1", e)
    \/ Return("c1")
SpecFail == Init /\ [][NextFail]_vars

\* A capture request and its repetition: c1 runs a request to its saved
\* response, then c2 runs the same request again while c1's response stands.
RepeatArgs ==
    {[session_id |-> Str("s1")] @@ p :
        p \in {[subject |-> SubjectId], [subject |-> SpeciesName],
               [subject |-> SpeciesStrain],
               [subject |-> SubjectSex, data_description |-> Ecephys]}}
RepeatCall(c, prev) ==
    /\ calls[prev].pc = "done" /\ calls[prev].res = "saved"
    /\ CaptureCall(c, calls[prev].args)
NextRepeat ==
    \/ \E args \in RepeatArgs : calls["c2"].op = "idle" /\ CaptureCall("c1", args)
    \/ RepeatCall("c2", "c1")
    \/ \E c \in Calls :
           \/ CapGet(c)
           \/ CapInsert(c)
           \/ UpdSelect(c)
           \/ UpdWrite(c)
           \/ CapReread(c)
    \/ calls["c2"].op = "idle" /\ Return("c1")
    \/ Return("c2")
\* the table is empty, or holds the draft an earlier direct
\* save_draft_metadata of s1 left
InitRepeat ==
    /\ \/ rows = {} /\ nextId = 1
       \/ /\ rows = InsertRow({}, 1, Str("s1"), [subject |-> SubjectId], 0)
          /\ nextId = 2
    /\ clock = 1
    /\ calls = [c \in Calls |-> IdleCall]
    /\ lastRun = [sid \in SessionIds |-> << >>]
    /\ vrFrom = << >>
    /\ conversations = {}
    /\ nextTurn = 1
SpecRepeat == InitRepeat /\ [][NextRepeat]_vars

\* Two update_draft_metadata calls on the subject of one draft, their SELECT
\* and UPDATE statements interleaved.
UpdateRaceValues == {SubjectSex, SpeciesName}
InitUpdateRace ==
    /\ rows = InsertRow({}, 1, Str("s1"), [subject |-> SubjectId], 0)
    /\ nextId = 2
    /\ clock = 1
    /\ calls = [c \in Calls |-> IdleCall]
    /\ lastRun = [sid \in SessionIds |-> << >>]
    /\ vrFrom = << >>
    /\ conversations = {}
    /\ nextTurn = 1
NextUpdateRace ==
    \E c \in Calls :
        \/ \E value \in UpdateRaceValues : UpdateCall(c, Str("s1"), "subject", value)
        \/ UpdSelect(c)
        \/ UpdWrite(c)
        \/ Return(c)
SpecUpdateRace == InitUpdateRace /\ [][NextUpdateRace]_vars

\* Two coroutines, each on a session of its own: c1 on s1, c2 on s2, their
\* statements interleaved.  Both sessions hold the draft a direct
\* save_draft_metadata left; the turns are those of s1.
SidOf(c) == IF c = "c1" THEN Str("s1") ELSE Str("s2")
\* the step a suspended coroutine takes when it is resumed
Resume(c) ==
    \/ CapGet(c)
    \/ CapInsert(c)
    \/ UpdSelect(c)
    \/ UpdWrite(c)
    \/ CapReread(c)
    \/ DelDrafts(c)
NextSessions ==
    \E c \in Calls :
        \/ CaptureCall(c, [session_id |-> SidOf(c), subject |-> SubjectSex])
        \/ c = "c1" /\ SaveTurnCall(c, SidOf(c), "user", "hello")
        \/ HistoryCall(c, SidOf(c))
        \/ DeleteCall(c, SidOf(c))
        \/ Resume(c)
        \/ Return(c)
InitSessions ==
    /\ rows = InsertRow(InsertRow({}, 1, Str("s1"), [subject |-> SubjectId], 1),
                        2, Str("s2"), [subject |-> SubjectId], 2)
    /\ nextId = 3
    /\ clock = 3
    /\ calls = [c \in Calls |-> IdleCall]
    /\ lastRun = [sid \in SessionIds |-> << >>]
    /\ vrFrom = << >>
    /\ conversations = {}
    /\ nextTurn = 1
SpecSessions == InitSessions /\ [][NextSessions]_vars

\* The snapshots handed to the validator: a subject, a data_description, a
\* session and a procedures section, each absent or one of a few values
\* (those of test_validation.py among them).
Modality(abbrs) ==
    ListV([i \in 1..Len(abbrs) |-> DictV([abbreviation |-> Str(abbrs[i])])])
SnapshotSubjects ==
    { NoneV, SubjectId,
      DictV([subject_id |-> Str("12")]),
      DictV([sex |-> Str("Male")]),
      DictV([sex |-> Str("invalid")]),
      DictV([subject_id |-> StrV(JsonT(NumV(553429))),
             species |-> DictV([name |-> Str("Canis lupus")])]) }
SnapshotDescriptions ==
    { NoneV,
      DictV([modality |-> Modality(<< "ecephys" >>)]),
      DictV([modality |-> Modality(<< "SPIM" >>)]),
      DictV([modality |-> Modality(<< "xray" >>)]),
      DictV([project_name |-> Str("BrainMap")]),
      DictV([modality |-> Modality(<< "ecephys", "pophys" >>),
             project_name |-> Str("BrainMap")]),
      DictV([modality |-> Modality(<< "SPIM" >>),
             project_name |-> Str("BrainMap")]) }
SnapshotSessions ==
    { NoneV, DictV([session_start_time |-> Str("2024-01-01T09:00:00")]) }
SnapshotProcedures ==
    { NoneV,
      DictV([section_thickness_um |-> NumV(0 - 5)]),
      DictV([coordinates |-> DictV([x |-> NumV(20), y |-> NumV(50)])]) }
\* a snapshot holds the sections that are not None
SnapshotOf(subject, data_description, session, procedures) ==
    LET all == [subject |-> subject, data_description |-> data_description,
                session |-> session, procedures |-> procedures]
    IN  [f \in {g \in DOMAIN all : all[g] # NoneV} |-> all[f]]
Snapshots ==
    {SnapshotOf(s, d, e, p) :
        s \in SnapshotSubjects, d \in SnapshotDescriptions,
        e \in SnapshotSessions, p \in SnapshotProcedures}
InitValidate ==
    /\ rows = {}
    /\ clock = 1
    /\ nextId = 1
    /\ \E snapshot \in Snapshots :
           calls = [c \in Calls |->
                      IF c = "c1"
                      THEN [IdleCall EXCEPT !.op = "validate", !.pc = "call",
                               !.args = [metadata |-> snapshot]]
                      ELSE IdleCall]
    /\ lastRun = [sid \in SessionIds |-> << >>]
    /\ vrFrom = << >>
    /\ conversations = {}
    /\ nextTurn = 1
NextValidate ==
    \/ \E snapshot \in Snapshots : ValidateCall("c1", snapshot)
    \/ Validate("c1")
    \/ Return("c1")
SpecValidate == InitValidate /\ [][NextValidate]_vars

\* Two chat calls on one session, their awaits interleaved.
ChatMessage(c) == IF c = "c1" THEN "A" ELSE "B"
NextChat ==
    \E c \in Calls :
        \/ ChatCall(c, Str("s1"), ChatMessage(c))
        \/ ChatSaveUser(c)
        \/ ChatHistory(c)
        \/ ChatDraft(c)
        \/ \E run \in AgentRuns : ChatQuery(c, run)
        \/ ChatFinish(c)
        \/ ChatStoreRaises(c)
        \/ Return(c)
SpecChat == Init /\ [][NextChat]_vars

\* A table as other writers of the database file left it: one record per
\* session, whose subject_json and validation_results_json may hold text that
\* is no JSON document, the empty text, or NULL.
StoredSubjectTexts == {JsonT(SubjectId), RawT("{not json"), RawT(""), NullT}
StoredVrTexts == {JsonT(DictV([status |-> Str("valid")])), RawT("oops"), NullT}
StoredRow(id, sid, t, subject, vr) ==
    [id |-> id, session_id |-> sid, status |-> "draft",
     created_at |-> t, updated_at |-> t,
     cols |-> [c \in JsonCols |->
                 IF c = "subject_json" THEN subject
                 ELSE IF c = VrCol THEN vr ELSE NullT]]
InitStored ==
    /\ \E s1, s2 \in StoredSubjectTexts : \E v1, v2 \in StoredVrTexts :
           rows = {StoredRow(1, Str("s1"), 1, s1, v1),
                   StoredRow(2, Str("s2"), 2, s2, v2)}
    /\ clock = 3
    /\ nextId = 3
    /\ calls = [c \in Calls |-> IdleCall]
    /\ lastRun = [sid \in SessionIds |-> << >>]
    /\ vrFrom = << >>
    /\ conversations = {}
    /\ nextTurn = 1
\* The readers over such a table.
NextRead ==
    \/ \E sid \in SessionIds : GetCall("c1", sid)
    \/ \E status_filter \in {NoneV, Str("draft")} : ListCall("c1", status_filter)
    \/ Return("c1")
SpecRead == InitStored /\ [][NextRead]_vars

\* Two capture calls on one existing draft, each supplying one key of the
\* subject section.
MergeArgs ==
    {[session_id |-> Str("s1"), subject |-> v] : v \in {SubjectSex, SpeciesName}}
InitMerge ==
    /\ rows = InsertRow({}, 1, Str("s1"), [subject |-> SubjectId], 1)
    /\ nextId = 2
    /\ clock = 2
    /\ calls = [c \in Calls |-> IdleCall]
    /\ lastRun = [sid \in SessionIds |-> << >>]
    /\ vrFrom = << >>
    /\ conversations = {}
    /\ nextTurn = 1
NextMerge ==
    \E c \in Calls :
        \/ \E args \in MergeArgs : CaptureCall(c, args)
        \/ CapGet(c)
        \/ UpdSelect(c)
        \/ UpdWrite(c)
        \/ CapReread(c)
        \/ Return(c)
SpecMerge == InitMerge /\ [][NextMerge]_vars

\* Two coroutines whose awaits interleave.
NextRace ==
    NextOn(Calls, RaceArgs, {Str("s1")}, {"validation_results"}, {SubjectSex},
           {Str("s1")})
SpecRace == Init /\ [][NextRace]_vars

\* ================================================================ claims
\* the current draft of a session as a reader decodes it
CurrentDrafts(sid) ==
    {RowToDict(r) : r \in {q \in rows : q.session_id = sid /\
        \A o \in rows : o.session_id = sid => o.created_at <= q.created_at}}
\* a capture call that found a draft and has returned saved
Merged(c) ==
    /\ calls[c].op = "capture" /\ calls[c].pc = "done" /\ calls[c].res = "saved"
    /\ IsDraft(calls[c].draft)
\* the section value a capture argument stands for (a str that decodes
\* stands for what it decodes to)
Supplied(c, f) ==
    LET a == calls[c].args[f]
    IN  IF a.t = "str" /\ a.v.k = "json" THEN a.v.p ELSE a
SuppliedFields(c) == {f \in Range(metadata_fields) : ArgGet(calls[c].args, f) # NoneV}
Quiescent == \A c \in Calls : calls[c].pc \in {"idle", "done"}

\* C1: after a capture call on an existing draft, every top-level key a
\* section held before the call (supplied by earlier calls) and every key this
\* call supplied is still a key of that section: capture never removes a key.
C1_KeysNeverDropped ==
    \A c \in Calls : Merged(c) =>
        \A d \in CurrentDrafts(calls[c].sid) : \A f \in Range(metadata_fields) :
            LET old == calls[c].draft.cols[WithSuffix(f)]
                new == d.cols[WithSuffix(f)]
            IN  /\ IsDict(old) =>
                       \A k \in Keys(old) : IsDict(new) /\ k \in Keys(new)
                /\ (f \in SuppliedFields(c) /\ IsDict(Supplied(c, f))) =>
                       \A k \in Keys(Supplied(c, f)) : IsDict(new) /\ k \in Keys(new)

\* C2: after a capture call on an existing draft, each top-level key of each
\* section holds the value of the latest call that supplied it: this call's
\* value if this call supplied the key, else the value it had before the call.
C2_LatestValueWins ==
    \A c \in Calls : Merged(c) =>
        \A d \in CurrentDrafts(calls[c].sid) : \A f \in Range(metadata_fields) :
            LET old == calls[c].draft.cols[WithSuffix(f)]
                new == d.cols[WithSuffix(f)]
                mine == IF f \in SuppliedFields(c) /\ IsDict(Supplied(c, f))
                        THEN Keys(Supplied(c, f)) ELSE {}
            IN  /\ \A k \in mine : IsDict(new) /\ k \in Keys(new)
                                   /\ new.v[k] = Supplied(c, f).v[k]
                /\ IsDict(old) =>
                     \A k \in Keys(old) \ mine : IsDict(new) /\ k \in Keys(new)
                                                 /\ new.v[k] = old.v[k]

C4_ValidationOfMergedState ==
    \A c \in Calls :
        (calls[c].op = "capture" /\ calls[c].pc = "done" /\ calls[c].res = "saved") =>
            /\ CurrentDrafts(calls[c].sid) # {}
            /\ \A d \in CurrentDrafts(calls[c].sid) :
                   /\ d.cols[VrCol] # NoneV
                   /\ d.cols[VrCol] = validate_metadata(SectionsOf(d))
\* a merging call after which the result differs from that of the old state
C4_Witness ==
    \E c \in Calls : Merged(c)
        /\ \E d \in CurrentDrafts(calls[c].sid) :
               /\ d.cols[VrCol] = validate_metadata(SectionsOf(d))
               /\ d.cols[VrCol] # validate_metadata(SectionsOf(calls[c].draft))

\* C5 as stated: once no call is in flight, a validation_results that capture
\* wrote is the validator's result on the snapshot read by the validation run
\* that executed last for the session, also after interleaved capture calls.
C5_ResultOfLastRun ==
    Quiescent =>
        \A sid \in SessionIds : \A d \in CurrentDrafts(sid) :
            (d.id \in DOMAIN vrFrom /\ vrFrom[d.id].by = "capture"
             /\ d.cols[VrCol] # NoneV)
                => d.cols[VrCol] = validate_metadata(lastRun[sid])
\* C5 as amended: a validation_results that capture wrote is, in every state,
\* the validator's result on the snapshot read by the validation run of the
\* call whose write reached the record last (the last write wins, whichever
\* run executed last).
C5_ResultOfWritingRun ==
    \A r \in rows :
        (r.id \in DOMAIN vrFrom /\ vrFrom[r.id].by = "capture") =>
            /\ r.cols[VrCol] # NullT
            /\ DecodeCol(r.cols[VrCol]) = validate_metadata(vrFrom[r.id].snap)
\* two calls interleaved: the stored result is that of the earlier run
C5_Witness ==
    /\ Quiescent
    /\ \E d \in CurrentDrafts(Str("s1")) :
           /\ d.id \in DOMAIN vrFrom /\ vrFrom[d.id].by = "capture"
           /\ d.cols[VrCol] = validate_metadata(vrFrom[d.id].snap)
           /\ d.cols[VrCol] # validate_metadata(lastRun[Str("s1")])

\* the field name a direct update_draft_metadata call was given
FieldName(c) == calls[c].args.field.v.p
RecognizedNames ==
    Range(metadata_fields) \cup {"validation_results"}
    \cup {f \o "_json" : f \in Range(metadata_fields) \cup {"validation_results"}}
ColumnNamed(name) ==
    IF name \in Range(metadata_fields) \cup {"validation_results"}
    THEN name \o "_json" ELSE name
\* c enters update_draft_metadata in this step
Enters(c) == calls[c].op = "idle" /\ calls'[c].op = "update"

\* C6: update_draft_metadata with a field name that is no section and not
\* validation_results returns the unknown-field error at once (not None, no
\* exception), without a read or a write: no record changes, updated_at included.
C6_UnknownFieldRejected ==
    /\ [](\A c \in Calls :
             (calls[c].op = "update" /\ FieldName(c) \notin RecognizedNames) =>
                 /\ calls[c].pc = "done" /\ calls[c].res = "unknown_field"
                 /\ ~calls[c].touched)
    /\ [][\A c \in Calls :
             (Enters(c) /\ calls'[c].args.field.v.p \notin RecognizedNames) =>
                 rows' = rows]_vars
\* rejected on a session that has a draft
C6_Witness ==
    \E c \in Calls :
        /\ calls[c].op = "update" /\ calls[c].res = "unknown_field"
        /\ FieldName(c) = "nonexistent_field"
        /\ \E r \in rows : r.session_id = calls[c].sid

\* C7: update_draft_metadata with a recognized field on a session without a
\* draft returns None (not-found): no record is created, nothing changes.
C7_NotFoundChangesNothing ==
    [][\A c \in Calls :
          (calls[c].op = "update" /\ calls[c].pc = "usel" /\ calls'[c].pc # "usel"
           /\ ~\E r \in rows : r.session_id = calls[c].sid) =>
              /\ calls'[c].pc = "done" /\ calls'[c].res = "not_found"
              /\ rows' = rows]_vars
\* not-found while another session has a record
C7_Witness ==
    \E c \in Calls :
        /\ calls[c].op = "update" /\ calls[c].res = "not_found"
        /\ FieldName(c) \in RecognizedNames
        /\ rows # {}
        /\ ~\E r \in rows : r.session_id = calls[c].sid

\* C8: update_draft_metadata with a recognized field on a session with a
\* draft, run on its own: the current draft's column reads back as the value
\* given (no key of the old value survives), updated_at moves forward to the
\* call's timestamp, and every other column, status, id, session_id,
\* created_at and every other record stay as they were.
C8_OverwritesExactlyOneSection ==
    [][\A c \in Calls :
          (calls[c].op = "update" /\ calls[c].pc = "uwrite" /\ calls'[c].pc # "uwrite") =>
              \E old \in rows : \E new \in rows' :
                  /\ RowToDict(old) \in CurrentDrafts(calls[c].sid)
                  /\ new.id = old.id
                  /\ calls'[c].res = "updated"
                  /\ DecodeCol(new.cols[ColumnNamed(FieldName(c))]) =
                         LET v == calls[c].args.value
                         IN  IF v.t = "str" /\ v.v.k = "json" THEN v.v.p ELSE v
                  /\ \A col \in JsonCols \ {ColumnNamed(FieldName(c))} :
                         new.cols[col] = old.cols[col]
                  /\ new.status = old.status
                  /\ new.session_id = old.session_id
                  /\ new.created_at = old.created_at
                  /\ new.updated_at > old.updated_at
                  /\ new.updated_at = calls[c].u.t
                  /\ rows' \ {new} = rows \ {old}]_vars
\* a subject that held subject_id when it was validated was overwritten by a
\* value without it, while another session's record sits in the table
C8_Witness ==
    \E c \in Calls :
        /\ calls[c].op = "update" /\ calls[c].res = "updated"
        /\ FieldName(c) = "subject" /\ calls[c].args.value = SubjectSex
        /\ \E r \in rows : r.session_id # calls[c].sid
        /\ \E d \in CurrentDrafts(calls[c].sid) :
               /\ d.cols["subject_json"] = SubjectSex
               /\ d.cols[VrCol] # NoneV
               /\ \E i \in 1..Len(d.cols[VrCol].v.valid_fields.v) :
                      d.cols[VrCol].v.valid_fields.v[i] = Str("subject.subject_id")

\* an absent or empty section argument: missing, None, an empty mapping, or
\* the text encoding one of these
EmptyArg(a) == a \in {NoneV, EmptyDict, StrV(JsonT(NoneV)), StrV(JsonT(EmptyDict))}
\* C9: a capture request (with a session_id) whose section values are all
\* absent or empty returns 'No metadata fields provided' without a read or a
\* write of the store.
C9_EmptyRequestRejected ==
    \A c \in Calls :
        (calls[c].op = "capture" /\ Truthy(ArgGet(calls[c].args, "session_id"))
         /\ \A f \in Range(metadata_fields) : EmptyArg(ArgGet(calls[c].args, f))) =>
            /\ calls[c].pc = "done" /\ calls[c].res = "no_fields"
            /\ ~calls[c].touched

\* C10: capture with a missing or empty session_id returns 'session_id is
\* required' before any other check, whether or not a section is provided,
\* and performs no read or write of the store.
C10_SessionIdRequired ==
    \A c \in Calls :
        (calls[c].op = "capture"
         /\ ArgGet(calls[c].args, "session_id") \in {NoneV, Str("")}) =>
            /\ calls[c].pc = "done" /\ calls[c].res = "session_id_required"
            /\ ~calls[c].touched
\* an empty session_id with a section, on a store that holds records
C10_Witness ==
    \E c \in Calls :
        /\ calls[c].op = "capture" /\ calls[c].res = "session_id_required"
        /\ ArgGet(calls[c].args, "session_id") = Str("")
        /\ ArgGet(calls[c].args, "subject") # NoneV
        /\ rows # {}

\* the ids of the records of the table
Ids(rws) == {r.id : r \in rws}
\* the columns in which two versions of a record differ
ChangedCols(old, new) == {col \in JsonCols : new.cols[col] # old.cols[col]}

\* C11: a capture call that found no draft inserts exactly one record, of
\* status draft, holding every provided section from the moment it exists and
\* nothing else; no other step of a capture call adds or removes a record, and
\* a call that found a draft changes only that record, at most one column in
\* a step.
C11_CreateInOneWrite ==
    [][\A c \in Calls :
          (calls[c].op = "capture" /\ calls'[c] # calls[c]) =>
              IF calls[c].pc = "insert"
              THEN \E new \in rows' :
                      /\ new.id \notin Ids(rows)
                      /\ rows' = rows \cup {new}
                      /\ new.status = "draft"
                      /\ new.session_id = calls[c].sid
                      /\ \A f \in Range(metadata_fields) :
                             IF f \in SuppliedFields(c)
                             THEN /\ new.cols[WithSuffix(f)] # NullT
                                  /\ DecodeCol(new.cols[WithSuffix(f)]) = Supplied(c, f)
                             ELSE new.cols[WithSuffix(f)] = NullT
                      /\ new.cols[VrCol] = NullT
              ELSE /\ Ids(rows') = Ids(rows)
                   /\ \A old \in rows : \E new \in rows' :
                          /\ new.id = old.id
                          /\ Cardinality(ChangedCols(old, new)) <= 1
                          /\ (IsDraft(calls[c].draft) /\ old.id # calls[c].draft.id)
                                 => new = old]_vars
\* a call with two sections has just inserted its record: both are stored
C11_Witness ==
    \E c \in Calls :
        /\ calls[c].op = "capture" /\ calls[c].pc = "reread"
        /\ ~IsDraft(calls[c].draft)
        /\ SuppliedFields(c) = {"subject", "data_description"}
        /\ \E r \in rows :
               /\ r.id = calls[c].u.id
               /\ r.cols["subject_json"] # NullT
               /\ r.cols["data_description_json"] # NullT

\* a list_all_drafts call that has returned, and what it returned
Listed(c) == calls[c].op = "list" /\ calls[c].pc = "done"
ListFilter(c) == calls[c].args.status_filter

\* C12: whatever create, capture, update, confirm and delete calls came
\* before, list_all_drafts (with or without a status filter) returns at most
\* one record per session, and every record returned is the current draft of
\* its session (the most recently created one).
C12_ListOnlyCurrentDrafts ==
    \A c \in Calls : Listed(c) =>
        \A i \in 1..Len(calls[c].out) :
            /\ calls[c].out[i] \in CurrentDrafts(calls[c].out[i].session_id)
            /\ \A j \in 1..Len(calls[c].out) :
                   calls[c].out[j].session_id = calls[c].out[i].session_id => j = i

\* C13: of two records with distinct created_at, list_all_drafts returns the
\* later-created one first, whatever confirm, update or capture did to their
\* status and updated_at before the call.
C13_NewestCreatedFirst ==
    \A c \in Calls : Listed(c) =>
        \A i, j \in 1..Len(calls[c].out) :
            calls[c].out[i].created_at > calls[c].out[j].created_at => i < j
\* the record listed second was confirmed after the first one was written
C13_Witness ==
    \E c \in Calls : Listed(c) /\ Len(calls[c].out) >= 2
        /\ calls[c].out[1].created_at > calls[c].out[2].created_at
        /\ calls[c].out[1].updated_at < calls[c].out[2].updated_at
        /\ calls[c].out[2].status = "confirmed"

\* the records a sequence returned holds
Elements(seq) == {seq[i] : i \in 1..Len(seq)}
\* the records list_all_drafts may return for a filter, as a set
ListedNow(rws, status) == UNION {Elements(l) : l \in list_all_drafts(rws, Str(status))}

\* C14: list_all_drafts with a status returns each record of that status
\* once and no other record; without a filter (None, or the empty string,
\* which is no status) it returns each record of the table once; the UPDATE
\* of confirm_metadata takes a draft record out of the result for 'draft' and
\* puts it into the result for 'confirmed'.
C14_FilterExact ==
    /\ [](\A c \in Calls : Listed(c) =>
             /\ Len(calls[c].out) = Cardinality(Elements(calls[c].out))
             /\ Elements(calls[c].out) =
                    {RowToDict(r) : r \in
                        {q \in rows : ListFilter(c) \in {NoneV, Str("")}
                                       \/ Str(q.status) = ListFilter(c)}})
    /\ [][\A c \in Calls :
             (calls[c].op = "confirm" /\ calls[c].pc = "cwrite"
              /\ calls'[c].pc # "cwrite") =>
                 \E old \in rows : \E new \in rows' :
                     /\ old.id = calls[c].u.id /\ new.id = old.id
                     /\ old.status = "draft" => RowToDict(old) \in ListedNow(rows, "draft")
                     /\ \A d \in ListedNow(rows', "draft") : d.id # old.id
                     /\ RowToDict(new) \in ListedNow(rows', "confirmed")]_vars
\* list('confirmed') returned a record while a draft one sits in the table
C14_Witness ==
    \E c \in Calls : Listed(c) /\ ListFilter(c) = Str("confirmed")
        /\ Len(calls[c].out) >= 1
        /\ \E r \in rows : r.status = "draft"

\* a get_draft_metadata call that has returned
Got(c) == calls[c].op = "get" /\ calls[c].pc = "done"

\* C15: get_draft_metadata returns the record of the session with the
\* greatest created_at, decoded; it returns None exactly when the session has
\* no record, and then no list result holds a record of that session.
C15_GetCurrent ==
    \A c \in Calls : Got(c) =>
        IF \E r \in rows : r.session_id = calls[c].sid
        THEN /\ IsDraft(calls[c].out) /\ calls[c].res = "found"
             /\ \E r \in rows : /\ r.session_id = calls[c].sid
                                 /\ calls[c].out = RowToDict(r)
                                 /\ \A q \in rows : q.session_id = calls[c].sid
                                        => q.created_at <= r.created_at
        ELSE /\ ~IsDraft(calls[c].out) /\ calls[c].res = "not_found"
             /\ \A status_filter \in StatusFilters :
                    \A l \in list_all_drafts(rows, status_filter) :
                        \A d \in Elements(l) : d.session_id # calls[c].sid
\* the later of two records of the session was returned
C15_Witness ==
    \E c \in Calls : Got(c) /\ IsDraft(calls[c].out)
        /\ \E r \in rows : /\ r.session_id = calls[c].sid
                            /\ r.created_at < calls[c].out.created_at

\* C16: confirm_metadata on a session with a record sets the status of the
\* session's current draft to confirmed and its updated_at to the call's
\* later timestamp, and changes nothing else of it and no other record; on a
\* session without a record it returns None and no step of it writes.
C16_ConfirmOnlyStatus ==
    [][\A c \in Calls :
          (calls[c].op = "confirm" /\ calls'[c] # calls[c]) =>
              IF calls[c].pc = "cwrite"
              THEN \E old \in rows : \E new \in rows' :
                      /\ RowToDict(old) \in CurrentDrafts(calls[c].sid)
                      /\ new = [old EXCEPT !.status = "confirmed",
                                           !.updated_at = calls[c].u.t]
                      /\ new.updated_at > old.updated_at
                      /\ rows' \ {new} = rows \ {old}
                      /\ calls'[c].res = "confirmed"
              ELSE /\ rows' = rows
                   /\ (calls[c].pc = "csel"
                       /\ ~\E r \in rows : r.session_id = calls[c].sid)
                          => calls'[c].pc = "done" /\ calls'[c].res = "not_found"]_vars
\* confirmed while an older record of the session and a record of another
\* session stay drafts
C16_Witness ==
    \E c \in Calls :
        /\ calls[c].op = "confirm" /\ calls[c].res = "confirmed"
        /\ \E r, old, other \in rows :
               /\ r.id = calls[c].u.id /\ r.status = "confirmed"
               /\ old.session_id = r.session_id /\ old.created_at < r.created_at
               /\ old.status = "draft"
               /\ other.session_id # r.session_id /\ other.status = "draft"

\* C17: delete_session removes every turn and every record of the session
\* and nothing of another session; it returns True exactly when a turn or a
\* record was removed, so False on a session without data (such as right
\* after a delete); once it has returned, get_draft_metadata gives None and
\* the history of the session is empty.
C17_DeleteRemovesAll ==
    /\ [](\A c \in Calls : (calls[c].op = "delete" /\ calls[c].pc = "done") =>
             /\ GetDraft(rows, calls[c].sid) = {NoDraft}
             /\ get_conversation_history(conversations, calls[c].sid) = {<< >>}
             /\ calls[c].res \in {"deleted", "nothing_deleted"})
    /\ [][\A c \in Calls :
             /\ (calls[c].op = "idle" /\ calls'[c].op = "delete") =>
                    /\ conversations' =
                           {t \in conversations : t.session_id # calls'[c].sid}
                    /\ rows' = rows
             /\ (calls[c].op = "delete" /\ calls[c].pc = "ddraft"
                 /\ calls'[c].pc = "done") =>
                    /\ rows' = {r \in rows : r.session_id # calls[c].sid}
                    /\ conversations' = conversations
                    /\ calls'[c].res = "deleted" <=>
                           (calls[c].n > 0 \/ rows' # rows)]_vars
\* one turn and one record were removed; another session keeps its own
C17_Witness ==
    \E c \in Calls :
        /\ calls[c].op = "delete" /\ calls[c].pc = "done"
        /\ calls[c].res = "deleted" /\ calls[c].n = 1 /\ calls[c].n2 = 1
        /\ \E t \in conversations : t.session_id # calls[c].sid
        /\ \E r \in rows : r.session_id # calls[c].sid

\* C18: the status of every record is draft or confirmed in every state: a
\* record is inserted as draft, and a status changes only in the UPDATE of
\* confirm_metadata, to confirmed; validated and error are never assigned.
C18_StatusDraftOrConfirmed ==
    /\ [](\A r \in rows : r.status \in {"draft", "confirmed"})
    /\ [][/\ \A new \in rows' : new.id \notin Ids(rows) => new.status = "draft"
          /\ \A old \in rows : \A new \in rows' :
                 (new.id = old.id /\ new.status # old.status) =>
                     /\ new.status = "confirmed"
                     /\ \E c \in Calls : calls[c].op = "confirm"
                                          /\ calls[c].pc = "cwrite"]_vars
\* a confirmed record that capture has validated, next to a draft
C18_Witness ==
    \E r, q \in rows :
        /\ r.status = "confirmed" /\ q.status = "draft"
        /\ r.id \in DOMAIN vrFrom
        /\ \A c \in Calls : calls[c].op # "confirm"

\* C19: ids are unique, and the id, session_id and created_at of a record
\* are the same after every step of capture, update and confirm (and of every
\* other operation) as before it: only updated_at, status, the sections and
\* validation_results are rewritten.
C19_IdentityNeverChanges ==
    /\ [](\A r, q \in rows : r.id = q.id => r = q)
    /\ [][\A old \in rows : \A new \in rows' :
             new.id = old.id =>
                 /\ new.session_id = old.session_id
                 /\ new.created_at = old.created_at]_vars
\* a record whose section, validation_results, status and updated_at have
\* all been rewritten since it was created
C19_Witness ==
    \E r \in rows :
        /\ r.status = "confirmed" /\ r.updated_at > r.created_at
        /\ r.id \in DOMAIN vrFrom
        /\ DecodeCol(r.cols["subject_json"]) = Str("free text")

\* a direct save_draft_metadata or update_draft_metadata call has written
Wrote(c) ==
    /\ calls[c].pc = "done"
    /\ \/ calls[c].op = "create" /\ calls[c].res = "created"
       \/ calls[c].op = "update" /\ calls[c].res = "updated"
\* the bare section names the call wrote, and the value it gave each
WrittenFields(c) ==
    IF calls[c].op = "create" THEN DOMAIN calls[c].args.metadata_json
    ELSE {BareName(ColumnNamed(FieldName(c)))}
WrittenValue(c, f) ==
    IF calls[c].op = "create" THEN calls[c].args.metadata_json[f]
    ELSE calls[c].args.value
\* what a str that is valid JSON text decodes to; any other value itself
Decoded(v) == IF IsStr(v) /\ v.v.k = "json" THEN v.v.p ELSE v

\* C20 as stated: every value given as a section to save_draft_metadata or
\* update_draft_metadata, a str that is valid JSON text included, is the
\* value get_draft_metadata returns for that section afterwards.
C20_RoundTripEveryValue ==
    \A c \in Calls : Wrote(c) =>
        \A d \in GetDraft(rows, calls[c].sid) : \A f \in WrittenFields(c) :
            d.cols[WithSuffix(f)] = WrittenValue(c, f)
\* C20 as amended: a mapping, a list, a number and a str that is not valid
\* JSON text read back equal to the value given; a str that is valid JSON
\* text ("123", "null", an encoded mapping) reads back as the value it encodes.
C20_RoundTripUpToDecoding ==
    \A c \in Calls : Wrote(c) =>
        \A d \in GetDraft(rows, calls[c].sid) : \A f \in WrittenFields(c) :
            /\ IsDraft(d)
            /\ d.cols[WithSuffix(f)] = Decoded(WrittenValue(c, f))
\* a list and a number read back as given, an encoded mapping as the mapping
C20_Witness ==
    \E c \in Calls : Wrote(c) /\ calls[c].op = "create"
        /\ WrittenFields(c) = {"subject", "session", "rig"}
        /\ \E d \in GetDraft(rows, calls[c].sid) :
               /\ d.cols["session_json"] = ListV(<< NumV(1) >>)
               /\ d.cols["rig_json"] = NumV(7)
               /\ d.cols["subject_json"] = SubjectSex
               /\ WrittenValue(c, "subject") = StrV(JsonT(SubjectSex))

\* a str argument that is the JSON text of a mapping
EncodedMapping(v) == IsStr(v) /\ v.v.k = "json" /\ IsDict(v.v.p)
\* a capture call that has returned saved
Saved(c) ==
    calls[c].op = "capture" /\ calls[c].pc = "done" /\ calls[c].res = "saved"
\* the section a saved capture call leaves when it supplies mapping m for
\* column col: m merged into what the draft it found held, else m itself
CaptureLeaves(c, col, m) ==
    IF IsDraft(calls[c].draft) THEN MergeValue(calls[c].draft.cols[col], m)
    ELSE m

\* C21: a section given as the JSON text of a mapping to save_draft_metadata,
\* update_draft_metadata or the capture handler is stored as the text the
\* mapping itself would be stored as (one encoding) and reads back as the
\* mapping the structure would have left, never as a str.
C21_EncodedOnce ==
    /\ \A c \in Calls : Wrote(c) =>
           \A f \in WrittenFields(c) : EncodedMapping(WrittenValue(c, f)) =>
               LET m == WrittenValue(c, f).v.p
               IN  /\ LatestRows(rows, calls[c].sid) # {}
                   /\ \A r \in LatestRows(rows, calls[c].sid) :
                          /\ r.cols[WithSuffix(f)] = Serialize(m)
                          /\ r.cols[WithSuffix(f)] = JsonT(m)
                          /\ RowToDict(r).cols[WithSuffix(f)] = m
    /\ \A c \in Calls : Saved(c) =>
           \A f \in SuppliedFields(c) : EncodedMapping(calls[c].args[f]) =>
               LET m == calls[c].args[f].v.p
                   left == CaptureLeaves(c, WithSuffix(f), m)
               IN  /\ calls[c].metadata[f] = m
                   /\ LatestRows(rows, calls[c].sid) # {}
                   /\ \A r \in LatestRows(rows, calls[c].sid) :
                          /\ r.cols[WithSuffix(f)] = JsonT(left)
                          /\ IsDict(left)
                          /\ RowToDict(r).cols[WithSuffix(f)] = left
\* capture merged an encoded mapping into a draft's mapping while another
\* session holds a section that was created from an encoded mapping
C21_Witness ==
    /\ \E c \in Calls : Saved(c) /\ IsDraft(calls[c].draft)
           /\ calls[c].args["subject"] = StrV(JsonT(SubjectSex))
           /\ calls[c].draft.cols["subject_json"] = SubjectId
           /\ \E r \in LatestRows(rows, calls[c].sid) :
                  RowToDict(r).cols["subject_json"] = MergeValue(SubjectId, SubjectSex)
    /\ \E r \in rows : r.session_id = Str("s2")
                       /\ r.cols["subject_json"] = JsonT(SubjectSex)

\* what a reader is to get for a stored text: None for NULL, the decoded
\* value of a JSON document, the text itself otherwise
ReadsAs(text) ==
    IF text.k = "NULL" THEN NoneV
    ELSE IF text.k = "json" THEN text.p
    ELSE StrV(text)
Malformed(text) == text.k = "raw"

\* C22: get_draft_metadata and list_all_drafts return over any stored table:
\* a section or validation_results whose text is no JSON document comes back
\* as that text, and every other column of that record and of every other
\* record comes back decoded.
C22_MalformedTextReturnedRaw ==
    /\ \A c \in Calls : Got(c) =>
           /\ calls[c].res = "found"
           /\ \E r \in LatestRows(rows, calls[c].sid) :
                  /\ calls[c].out.id = r.id
                  /\ \A col \in JsonCols :
                         calls[c].out.cols[col] = ReadsAs(r.cols[col])
    /\ \A c \in Calls : Listed(c) =>
           /\ {calls[c].out[i].id : i \in 1..Len(calls[c].out)} = Ids(rows)
           /\ \A i \in 1..Len(calls[c].out) : \A r \in rows :
                  r.id = calls[c].out[i].id =>
                      \A col \in JsonCols :
                          calls[c].out[i].cols[col] = ReadsAs(r.cols[col])
\* a listing of two records: one with an undecodable section next to a
\* decoded validation_results, the other with a decoded section next to an
\* undecodable validation_results
C22_Witness ==
    \E c \in Calls : Listed(c) /\ Len(calls[c].out) = 2
        /\ \E i, j \in 1..2 :
               /\ calls[c].out[i].cols["subject_json"] = StrV(RawT("{not json"))
               /\ IsDict(calls[c].out[i].cols[VrCol])
               /\ calls[c].out[j].cols["subject_json"] = SubjectId
               /\ calls[c].out[j].cols[VrCol] = StrV(RawT("oops"))
        /\ \E r \in rows : Malformed(r.cols["subject_json"])

\* a capture call during which a statement raised
Failed(c) ==
    calls[c].op = "capture" /\ calls[c].pc = "done" /\ calls[c].out # << >>

\* C23: a capture call never ends by raising: it ends with one of its
\* responses, and when a statement of the try block raises (the first read,
\* the create or a merge write, the re-read and validation, the write of
\* validation_results) the response has status error and carries the
\* exception's message, never status saved.
C23_FailureYieldsErrorResponse ==
    /\ [](\A c \in Calls : (calls[c].op = "capture" /\ calls[c].pc = "done") =>
             /\ calls[c].res \in {"session_id_required", "no_fields",
                                  "saved", "error"}
             /\ Failed(c) <=> calls[c].res = "error"
             /\ Failed(c) => calls[c].out.error \in FailureMessages)
    /\ [][\A c \in Calls :
             (calls[c].op = "capture" /\ calls[c].out = << >>
              /\ calls'[c].op = "capture" /\ calls'[c].out # << >>) =>
                 /\ calls[c].pc \in TryPoints
                 /\ calls'[c].pc = "done" /\ calls'[c].res = "error"
                 /\ calls'[c].out.at = calls[c].pc]_vars
\* the write of validation_results failed, after the sections were merged
C23_Witness ==
    \E c \in Calls : Failed(c) /\ calls[c].res = "error"
        /\ calls[c].phase = "vr" /\ calls[c].out.at = "uwrite"
        /\ calls[c].out.error = Str("database is locked")
        /\ IsDraft(calls[c].draft)

\* the sections a failed merging call had not written when it failed: the
\* one whose update_draft_metadata was under way and those still to come
Unwritten(c) ==
    IF calls[c].phase = "fields" /\ calls[c].out.at \in {"usel", "uwrite"}
    THEN {BareName(calls[c].u.col)} \cup Range(calls[c].todo)
    ELSE {}

\* C24: after a capture call that failed, the call reports an error, the
\* sections it had written hold their new values, the sections it had not
\* yet written and validation_results hold the values they had before the
\* call, and the failing step itself changes no row.
C24_NoRollback ==
    /\ [](\A c \in Calls : Failed(c) =>
             /\ calls[c].res = "error"
             /\ IsDraft(calls[c].draft) =>
                    /\ CurrentDrafts(calls[c].sid) # {}
                    /\ \A d \in CurrentDrafts(calls[c].sid) :
                           /\ d.id = calls[c].draft.id
                           /\ d.cols[VrCol] = calls[c].draft.cols[VrCol]
                           /\ \A f \in Range(metadata_fields) :
                                  d.cols[WithSuffix(f)] =
                                      IF f \in DOMAIN calls[c].metadata
                                         /\ f \notin Unwritten(c)
                                      THEN MergeValue(
                                               calls[c].draft.cols[WithSuffix(f)],
                                               calls[c].metadata[f])
                                      ELSE calls[c].draft.cols[WithSuffix(f)]
             /\ (calls[c].touched /\ ~IsDraft(calls[c].draft)) =>
                    IF calls[c].out.at = "insert"
                    THEN CurrentDrafts(calls[c].sid) = {}
                    ELSE /\ CurrentDrafts(calls[c].sid) # {}
                         /\ \A d \in CurrentDrafts(calls[c].sid) :
                                /\ d.cols[VrCol] = NoneV
                                /\ \A f \in DOMAIN calls[c].metadata :
                                       d.cols[WithSuffix(f)] = calls[c].metadata[f])
    /\ [][\A c \in Calls :
             (calls[c].op = "capture" /\ calls[c].out = << >>
              /\ calls'[c].op = "capture" /\ calls'[c].out # << >>) =>
                 rows' = rows]_vars
\* the second of two sections failed: the first holds its merged value, the
\* second and validation_results what they held before
C24_Witness ==
    \E c \in Calls : Failed(c) /\ IsDraft(calls[c].draft)
        /\ DOMAIN calls[c].metadata = {"subject", "data_description"}
        /\ Unwritten(c) = {"data_description"}
        /\ calls[c].draft.cols[VrCol] # NoneV
        /\ \E d \in CurrentDrafts(calls[c].sid) :
               /\ d.cols["subject_json"] # calls[c].draft.cols["subject_json"]
               /\ Get(d.cols["subject_json"], "sex") = Str("Unknown")
               /\ d.cols["data_description_json"] = NoneV
               /\ d.cols[VrCol] = calls[c].draft.cols[VrCol]

\* c is the repetition of the request prev has just answered with saved
Repeats(c, prev) ==
    /\ Saved(c) /\ Saved(prev)
    /\ calls[c].args = calls[prev].args

\* C25: when a capture request of mapping-valued sections is run again right
\* after it was saved, the current draft is the same record, and each of its
\* sections and its validation_results equal what they were after the first
\* run (what the second run read at its start); no record is added.
C25_RepeatChangesNothing ==
    /\ [](Saved("c2") =>
             /\ Repeats("c2", "c1")
             /\ IsDraft(calls["c2"].draft)
             /\ CurrentDrafts(calls["c2"].sid) # {}
             /\ \A d \in CurrentDrafts(calls["c2"].sid) :
                    /\ d.id = calls["c2"].draft.id
                    /\ \A col \in JsonCols :
                           d.cols[col] = calls["c2"].draft.cols[col])
    /\ [][calls["c2"].op = "capture" => Ids(rows') = Ids(rows)]_vars
\* a repeated request on a draft that holds a key the request does not
\* supply: the second run wrote the record again and left it as it was
C25_Witness ==
    /\ Repeats("c2", "c1")
    /\ DOMAIN calls["c2"].metadata = {"subject"}
    /\ \E d \in CurrentDrafts(calls["c2"].sid) :
           /\ Keys(d.cols["subject_json"]) = {"subject_id", "species"}
           /\ d.cols[VrCol] # NoneV
           /\ d.updated_at > calls["c2"].draft.updated_at

\* the step in which call c runs its UPDATE and returns
Commits(c) ==
    calls[c].op = "update" /\ calls[c].pc = "uwrite" /\ calls'[c].pc = "done"

\* C26: two update_draft_metadata calls on the same section of one draft,
\* interleaved in any way, both return the updated row; every UPDATE leaves
\* the section holding exactly the value of the call that ran it, whatever
\* it held before, and no other step changes the table: when both are done
\* the section holds the value of the call whose UPDATE ran last.
C26_LastCommittedWriteWins ==
    /\ [](\A c \in Calls : (calls[c].op = "update" /\ calls[c].pc = "done") =>
             calls[c].res = "updated")
    /\ [][/\ \A c \in Calls : Commits(c) =>
                /\ LatestRows(rows', calls[c].sid) # {}
                /\ \A r \in LatestRows(rows', calls[c].sid) :
                       /\ DecodeCol(r.cols[calls[c].u.col]) = calls[c].args.value
                       /\ r.updated_at = calls[c].u.t
          /\ rows' # rows => \E c \in Calls : Commits(c)]_vars
\* c1 entered first and wrote last: its value stands, c2's is gone, and the
\* keys of the two values were not united
C26_Witness ==
    /\ \A c \in Calls : calls[c].op = "update" /\ calls[c].pc = "done"
                        /\ calls[c].res = "updated"
    /\ calls["c1"].args.value = SubjectSex
    /\ calls["c2"].args.value = SpeciesName
    /\ calls["c1"].u.t < calls["c2"].u.t
    /\ \E d \in CurrentDrafts(Str("s1")) :
           /\ d.cols["subject_json"] = SubjectSex
           /\ d.updated_at = calls["c1"].u.t

\* the records and the turns of a session, and those of every other session
Own(rws, sid) == {r \in rws : r.session_id = sid}
Foreign(rws, sid) == {r \in rws : r.session_id # sid}
\* coroutine c takes the step, on the session it names
Steps(c) == calls'[c] # calls[c]
Suspended(c) == calls[c].pc \notin {"idle", "done"}
StepSid(c) == IF calls[c].op = "idle" THEN calls'[c].sid ELSE calls[c].sid

\* C27: with one coroutine on session s1 and one on s2, interleaved in every
\* way: a suspended coroutine can always take its next step, wherever the
\* other one stands; a step on a session leaves the records and turns of the
\* other session as they are, and what it reads (the draft, the id it
\* selects, the snapshot it validates, the history) and writes is what the
\* same step yields on the session's own records and turns alone; so a saved
\* capture leaves the sections and validation_results it would leave alone.
C27_SessionsDoNotInterfere ==
    /\ [](\A c \in Calls :
             /\ (Suspended(c) /\ clock <= MaxClock) => ENABLED Resume(c)
             /\ Saved(c) =>
                    /\ Own(rows, calls[c].sid) # {}
                    /\ \A d \in {RowToDict(r) : r \in Own(rows, calls[c].sid)} :
                           /\ d.cols[VrCol] = validate_metadata(SectionsOf(d))
                           /\ \A f \in DOMAIN calls[c].metadata :
                                  d.cols[WithSuffix(f)] =
                                      CaptureLeaves(c, WithSuffix(f),
                                                    calls[c].metadata[f]))
    /\ [][\A c \in Calls : Steps(c) =>
             LET sid == StepSid(c)
                 mine == Own(rows, sid)
             IN  /\ Foreign(rows', sid) = Foreign(rows, sid)
                 /\ Foreign(conversations', sid) = Foreign(conversations, sid)
                 /\ calls[c].pc \in {"get", "reread"} =>
                        \E d \in GetDraft(mine, sid) :
                            /\ calls[c].pc = "get" => calls'[c].draft = d
                            /\ (calls[c].pc = "reread" /\ IsDraft(d)) =>
                                   /\ calls'[c].snap = SectionsOf(d)
                                   /\ calls'[c].u.val =
                                          validate_metadata(BareMetadata(d))
                 /\ calls'[c].pc = "uwrite" =>
                        \E r \in mine : r.id = calls'[c].u.id
                 /\ calls'[c].op = "history" =>
                        calls'[c].out \in
                            get_conversation_history(Own(conversations, sid), sid)
                 /\ calls[c].pc = "ddraft" => calls'[c].n2 = Cardinality(mine)
                 /\ calls'[c].op = "delete" /\ calls[c].op = "idle" =>
                        calls'[c].n = Cardinality(Own(conversations, sid))]_vars
\* c1, whose session holds a turn, has merged into its draft and been
\* answered while c2 is suspended between the two DELETE statements of
\* delete_session, the record of its session still there
C27_Witness ==
    /\ Saved("c1") /\ IsDraft(calls["c1"].draft)
    /\ calls["c2"].op = "delete" /\ calls["c2"].pc = "ddraft"
    /\ Own(rows, Str("s2")) # {}
    /\ Own(conversations, Str("s1")) # {}
    /\ \E d \in CurrentDrafts(Str("s1")) :
           Keys(d.cols["subject_json"]) = {"subject_id", "sex"}

\* a validate_metadata call has returned: its snapshot and its verdict
Validated(c) == calls[c].op = "validate" /\ calls[c].pc = "done"
Snapshot(c) == calls[c].args.metadata
Verdict(c) == calls[c].out.v
\* the issues of a verdict, errors and warnings together
VerdictIssues(c) == Verdict(c).errors.v \o Verdict(c).warnings.v

\* C28: the status of a verdict is errors exactly when one of its issues has
\* severity error, and valid otherwise: a verdict with warnings or missing
\* required paths but no error is valid, and the verdict on the empty
\* snapshot is valid with the three required paths missing.
C28_StatusFromErrorsOnly ==
    \A c \in Calls : Validated(c) =>
        /\ Verdict(c).status \in {Str("errors"), Str("valid")}
        /\ Verdict(c).status = Str("errors") <=>
               \E i \in 1..Len(VerdictIssues(c)) :
                   VerdictIssues(c)[i].v.severity = Str("error")
        /\ \A i \in 1..Len(Verdict(c).errors.v) :
               Verdict(c).errors.v[i].v.severity = Str("error")
        /\ \A i \in 1..Len(Verdict(c).warnings.v) :
               Verdict(c).warnings.v[i].v.severity = Str("warning")
        /\ Verdict(c).status = Str("errors") <=>
               \/ Get(SectionOf(Snapshot(c), "subject"), "sex") = Str("invalid")
               \/ Get(SectionOf(Snapshot(c), "data_description"), "modality")
                      = Modality(<< "xray" >>)
               \/ Get(SectionOf(Snapshot(c), "procedures"), "section_thickness_um")
                      = NumV(0 - 5)
        /\ DOMAIN Snapshot(c) = {} =>
               /\ Verdict(c).status = Str("valid")
               /\ Len(Verdict(c).missing_required.v) = 3
               /\ Len(VerdictIssues(c)) = 0
\* a valid verdict with two warnings (unknown species, missing session) and
\* a missing required path
C28_Witness ==
    \E c \in Calls : Validated(c)
        /\ Verdict(c).status = Str("valid")
        /\ Len(Verdict(c).warnings.v) = 2
        /\ Len(Verdict(c).missing_required.v) = 1

\* the required paths a snapshot lacks, by name
AbsentPaths(snapshot) ==
    {Str(name) : name \in
        ( (IF Get(SectionOf(snapshot, "subject"), "subject_id") = NoneV
           THEN {"subject.subject_id"} ELSE {})
          \cup (IF Get(SectionOf(snapshot, "data_description"), "modality") = NoneV
                THEN {"data_description.modality"} ELSE {})
          \cup (IF Get(SectionOf(snapshot, "data_description"), "project_name") = NoneV
                THEN {"data_description.project_name"} ELSE {}) )}

\* C29: completeness_score is the number of the three required paths the
\* snapshot holds over 3, and missing_required lists exactly the paths it
\* lacks, each once: 0 for the empty snapshot, 1 exactly when nothing is
\* missing, whatever optional fields, warnings and errors there are.
C29_CompletenessFromRequiredPaths ==
    \A c \in Calls : Validated(c) =>
        LET missing == Verdict(c).missing_required.v
            score == Verdict(c).completeness_score.v
        IN  /\ Elements(missing) = AbsentPaths(Snapshot(c))
            /\ Len(missing) = Cardinality(AbsentPaths(Snapshot(c)))
            /\ score = << 3 - Cardinality(AbsentPaths(Snapshot(c))), 3 >>
            /\ DOMAIN Snapshot(c) = {} => score[1] = 0
            /\ score[1] = score[2] <=> Len(missing) = 0
\* a full score next to two warnings and an error
C29_Witness ==
    \E c \in Calls : Validated(c)
        /\ Verdict(c).completeness_score.v = << 3, 3 >>
        /\ Len(Verdict(c).warnings.v) = 2
        /\ Len(Verdict(c).errors.v) = 1

\* the abbreviations the claim names as physiology-style, and whether a
\* snapshot lists one
ListsPhysiology(snapshot) ==
    \E i \in 1..Len(Abbreviations(snapshot)) :
        Abbreviations(snapshot)[i] \in {Str("ecephys"), Str("pophys")}
SessionIssues(c) ==
    SelectSeq(VerdictIssues(c), LAMBDA i : i.v.field = Str("session"))

\* C30: a verdict holds exactly one issue on field session, a warning, when
\* the snapshot lists a physiology modality (one or several) and has no
\* session section; it holds none when the session section is there or no
\* listed modality is a physiology one (SPIM, an unknown one, none at all).
C30_OneSessionWarning ==
    \A c \in Calls : Validated(c) =>
        IF ListsPhysiology(Snapshot(c)) /\ "session" \notin DOMAIN Snapshot(c)
        THEN /\ Len(SessionIssues(c)) = 1
             /\ SessionIssues(c)[1].v.severity = Str("warning")
        ELSE Len(SessionIssues(c)) = 0
\* two physiology modalities without a session: one warning on session
C30_Witness ==
    \E c \in Calls : Validated(c)
        /\ Len(Abbreviations(Snapshot(c))) = 2
        /\ "session" \notin DOMAIN Snapshot(c)
        /\ Len(SessionIssues(c)) = 1
        /\ Verdict(c).status = Str("valid")

\* a chat call whose generator has ended, by its last yield or by raising
ChatEnded(c) == calls[c].op = "chat" /\ calls[c].pc = "done"
EventTypes(c) == [i \in 1..Len(calls[c].out) |-> calls[c].out[i].type]
Count(seq, x) == Cardinality({i \in 1..Len(seq) : seq[i] = x})

\* C31: when a chat call has ended, its events begin with the one session_id
\* event and end with the one done event, and the generator ended without an
\* exception; after a query that raised, the fallback content event precedes
\* done.
C31_SessionIdFirstDoneLast ==
    \A c \in Calls : ChatEnded(c) =>
        /\ calls[c].res = "finished"
        /\ Len(calls[c].out) >= 2
        /\ EventTypes(c)[1] = "session_id"
        /\ EventTypes(c)[Len(calls[c].out)] = "done"
        /\ Count(EventTypes(c), "session_id") = 1
        /\ Count(EventTypes(c), "done") = 1
        /\ calls[c].phase = "fallback" =>
               calls[c].out[Len(calls[c].out) - 1] = Event("content", FallbackMessage)

\* the user turn a chat call saved, as get_conversation_history returns it
OwnTurn(c) ==
    [role |-> "user", content |-> calls[c].args.user_message,
     created_at |-> calls[c].u.t]
HistoryRead(c) ==
    calls[c].op = "chat" /\ calls[c].pc \in {"draft", "query", "save"}

\* C39: the prior history a chat call puts into its prompt is the history it
\* read without the user turn it saved itself, and with every other turn.
C39_PriorHistoryIsOthersTurns ==
    \A c \in Calls : HistoryRead(c) =>
        calls[c].snap = SelectSeq(calls[c].metadata, LAMBDA t : t # OwnTurn(c))

\* the step in which capture call c reads the draft again and validates it
Validates(c) ==
    /\ calls[c].op = "capture" /\ calls[c].pc = "reread"
    /\ calls'[c].op = "capture" /\ calls'[c].phase = "vr"
\* the names of the columns of a record that hold no section
OtherColumns ==
    {"validation_results", VrCol, "id", "session_id", "status", "created_at",
     "updated_at"}

WritesResult(c) ==
    /\ calls[c].op = "capture" /\ calls[c].pc = "uwrite" /\ calls[c].u.col = VrCol
    /\ calls'[c].pc # "uwrite"

\* C33: within one capture call validation_results is written after all of
\* the call's section writes and after the re-read that follows them, and
\* the snapshot validated at that re-read has every section the call wrote.
C33_ValidatedAfterOwnWrites ==
    [][\A c \in Calls :
          /\ Validates(c) =>
                 /\ calls[c].todo = << >>
                 /\ DOMAIN calls[c].metadata \subseteq DOMAIN calls'[c].bare_metadata
          /\ WritesResult(c) =>
                 /\ calls[c].phase = "vr" /\ calls[c].todo = << >>
                 /\ DOMAIN calls[c].metadata \subseteq DOMAIN calls[c].bare_metadata]_vars

\* C34: when records are created through capture alone, no session ever has
\* more than one record, also when two capture calls on a session without a
\* draft interleave.
C34_OneDraftPerSession ==
    \A sid \in SessionIds : Cardinality(SessionRows(rows, sid)) <= 1

\* C35: when two capture calls on one existing draft supply disjoint
\* top-level keys for the same section and interleave, the section holds the
\* keys of both calls once both have returned saved.
C35_BothKeysKept ==
    \A c, o \in Calls :
        (c # o /\ Merged(c) /\ Merged(o) /\ calls[c].sid = calls[o].sid) =>
            \A f \in SuppliedFields(c) \cap SuppliedFields(o) :
                (IsDict(Supplied(c, f)) /\ IsDict(Supplied(o, f))
                 /\ Keys(Supplied(c, f)) \cap Keys(Supplied(o, f)) = {}) =>
                    \A d \in CurrentDrafts(calls[c].sid) :
                        /\ IsDict(d.cols[WithSuffix(f)])
                        /\ Keys(Supplied(c, f)) \cup Keys(Supplied(o, f))
                               \subseteq Keys(d.cols[WithSuffix(f)])

\* the step in which capture call c returns status saved
ReturnsSaved(c) ==
    /\ calls[c].op = "capture" /\ calls[c].pc # "done"
    /\ calls'[c].op = "capture" /\ calls'[c].pc = "done" /\ calls'[c].res = "saved"

\* C36: whenever capture returns status saved, the session has a current
\* draft and that draft holds every section named in fields_saved, also when
\* a delete_session of that session ran between the call's first read and its
\* section writes.
C36_SavedMeansStored ==
    [][\A c \in Calls : ReturnsSaved(c) =>
          /\ LatestRows(rows', calls[c].sid) # {}
          /\ \A r \in LatestRows(rows', calls[c].sid) :
                 \A f \in DOMAIN calls[c].metadata :
                     r.cols[WithSuffix(f)] # NullT]_vars

\* the step in which call c runs the UPDATE of update_draft_metadata
RunsUpdate(c) ==
    /\ calls[c].op \in {"capture", "update"} /\ calls[c].pc = "uwrite"
    /\ calls[c].u.col \in JsonCols
    /\ calls'[c].pc # "uwrite"
\* the step in which a delete_session of sid deletes its records
RunsDelete(sid) ==
    \E c \in Calls : /\ calls[c].op = "delete" /\ calls[c].pc = "ddraft"
                     /\ calls[c].sid = sid /\ calls'[c].pc = "done"

\* C37: a confirmed record never returns to draft.  Every step other than a
\* delete_session of its session keeps the record, its identity and its
\* status confirmed; a capture or update_draft_metadata write on a session
\* whose current record is confirmed changes that record's column in place;
\* and capture creates no new record next to it.
C37_ConfirmedStaysConfirmed ==
    [][/\ \A r \in rows : r.status = "confirmed" =>
              \/ RunsDelete(r.session_id) /\ r.id \notin Ids(rows')
              \/ \E q \in rows' : /\ q.id = r.id /\ q.status = "confirmed"
                                  /\ q.session_id = r.session_id
                                  /\ q.created_at = r.created_at
       /\ \A c \in Calls : \A r \in rows :
              (RunsUpdate(c) /\ r.id = calls[c].u.id /\ r.status = "confirmed") =>
                  /\ Ids(rows') = Ids(rows)
                  /\ \E q \in rows' :
                         /\ q.id = r.id /\ q.status = "confirmed"
                         /\ q.cols[calls[c].u.col] = Serialize(calls[c].u.val)
                         /\ \A col \in JsonCols \ {calls[c].u.col} :
                                q.cols[col] = r.cols[col]
       /\ \A c \in Calls :
              (calls[c].op = "capture" /\ calls[c].pc = "get"
               /\ LatestRows(rows, calls[c].sid) # {}) =>
                  calls'[c].pc # "insert"]_vars
\* a capture call that found a confirmed record has merged into it and
\* written its validation result; the record is still confirmed
C37_Witness ==
    \E c \in Calls :
        /\ Merged(c) /\ calls[c].draft.status = "confirmed"
        /\ \E r \in rows :
               /\ r.id = calls[c].draft.id /\ r.status = "confirmed"
               /\ r.id \in DOMAIN vrFrom /\ vrFrom[r.id].by = "capture"
               /\ DecodeCol(r.cols["subject_json"]) # calls[c].draft.cols["subject_json"]
               /\ r.updated_at > r.created_at + 1

\* C38: update_draft_metadata with an unrecognized field name on a session
\* without a draft answers with the unknown-field error, not with not-found:
\* the call ends in the step that enters it, before the clock is read and
\* before the SELECT, and the table is left as it was.
C38_UnknownFieldBeforeNotFound ==
    [][\A c \in Calls :
          (Enters(c) /\ calls'[c].args.field.v.p \notin RecognizedNames
           /\ SessionRows(rows, calls'[c].sid) = {}) =>
              /\ calls'[c].pc = "done"
              /\ calls'[c].res = "unknown_field" /\ calls'[c].res # "not_found"
              /\ ~calls'[c].touched
              /\ clock' = clock
              /\ rows' = rows]_vars
\* rejected on a session that has no record, while another session has one
C38_Witness ==
    \E c \in Calls :
        /\ calls[c].op = "update" /\ calls[c].res = "unknown_field"
        /\ FieldName(c) = "nonexistent_field"
        /\ SessionRows(rows, calls[c].sid) = {}
        /\ rows # {}

\* _row_to_dict decodes the text: it is truthy and json.loads accepts it
Decodable(text) == Truthy(StrV(text)) /\ Loads(text).ok

\* C40: every section text the store writes is decodable.  After any
\* sequence of save_draft_metadata, update_draft_metadata and capture calls,
\* with strs that are no JSON document among the values, every section column
\* is NULL or a text json.loads accepts, and get_draft_metadata returns each
\* section decoded, never as the stored text itself.
C40_StoredTextDecodable ==
    /\ \A r \in rows : \A col \in MetadataCols :
           r.cols[col] = NullT \/ Decodable(r.cols[col])
    /\ \A c \in Calls : (Got(c) /\ IsDraft(calls[c].out)) =>
           \A r \in rows : r.id = calls[c].out.id =>
               \A col \in MetadataCols :
                   /\ r.cols[col] # NullT =>
                          /\ calls[c].out.cols[col] = Loads(r.cols[col]).val
                          /\ calls[c].out.cols[col] # StrV(r.cols[col])
                   /\ r.cols[col] = NullT => calls[c].out.cols[col] = NoneV
\* a record read back whose subject was written as a str that is no JSON
\* document, while another record holds a str that was stored verbatim
C40_Witness ==
    \E c \in Calls :
        /\ Got(c) /\ IsDraft(calls[c].out)
        /\ calls[c].out.cols["subject_json"] = Str("free text")
        /\ \E r \in rows : /\ r.id = calls[c].out.id
                            /\ r.cols["subject_json"] = JsonT(Str("free text"))
        /\ \E q \in rows : /\ q.id # calls[c].out.id
                            /\ q.cols["subject_json"] = JsonT(SubjectSex)
                            /\ q.cols["rig_json"] = JsonT(NumV(7))
====
